---- MODULE Spec2Model ----
(***************************************************************************)
(* Model of the batch image-synthesis route of mojilab                     *)
(* (src/app/api/test-flux-lora/route.ts).  One batch is one execution of   *)
(* POST; every await of the handler is a suspension point, and one action  *)
(* is the code that runs between two suspension points.  The external      *)
(* services (language service, synthesis service, image fetch, datastore,  *)
(* object storage) answer nondeterministically.                            *)
(***************************************************************************)
EXTENDS Integers, Sequences, FiniteSets, TLC

\* ------------------------------------------------------------------ bounds
MaxItems == 2      \* longest prompt / image list of a request
MaxBatches == 2    \* batches running concurrently in SpecConc
MaxFaults == 2     \* failing external answers one batch may meet

Batches == 1..MaxBatches

\* save requests in flight at the same time
MaxSavers == 2
Savers == 1..MaxSavers

\* accounts
Users == {"user1", "user2"}

\* ------------------------------------------------------------ data domains
None == "null"                       \* JS null / undefined where a string is expected
Null == <<"null">>                   \* JS null / undefined where a reference or id is expected
Texts == {"ko1", "ko2"}              \* source texts (prompts, themes)
\* translations the language service returns: its answers differ from call
\* to call, and each batch is given answers of its own
English ==
    [ko1 |-> <<"en1 (a)", "en1 (b)", "en1 (c)", "en1 (d)">>,
     ko2 |-> <<"en2 (a)", "en2 (b)", "en2 (c)", "en2 (d)">>]
Images == {"img1"}                   \* base64 data URLs sent by the caller

RECURSIVE SeqsUpTo(_, _)
SeqsUpTo(S, n) ==
    IF n = 0 THEN {<<>>}
    ELSE LET shorter == SeqsUpTo(S, n - 1)
         IN  shorter \cup {Append(s, x) : s \in {t \in shorter : Len(t) = n - 1}, x \in S}

\* prompt lists of the requests: the first text is "ko1" (the two texts are
\* interchangeable) and the texts after the first are one text, the empty
\* list is the invalid request
PromptLists ==
    {s \in SeqsUpTo(Texts, MaxItems) :
        /\ Len(s) > 0 => s[1] = "ko1"
        /\ \A k \in 2..Len(s) : s[k] = s[Len(s)]}
ImageLists == SeqsUpTo(Images, MaxItems)

\* the requests a caller may send; an absent list is Null, an absent string
\* field is None
StyleChoices == {[style |-> None, monochromeOnly |-> TRUE],
                 [style |-> "pen", monochromeOnly |-> FALSE]}
SaveChoices == {[saveToDb |-> FALSE, userId |-> None, character |-> None],
                [saveToDb |-> TRUE, userId |-> "user1", character |-> "cat"],
                [saveToDb |-> TRUE, userId |-> "user1", character |-> None],
                [saveToDb |-> TRUE, userId |-> None, character |-> "cat"]}
Themes == {None, "ko2"}
Ids == {None, "m1", "m9"}

\* Authorization header of a request: absent, or a bearer token of a session
AuthHeaders == {None, "Bearer token-user1"}

MkRequest(id, mode, prompts, images, theme, sc, sv, auth) ==
    [authorization |-> auth,
     id |-> id, mode |-> mode, prompts |-> prompts, images |-> images,
     theme |-> theme, style |-> sc.style, monochromeOnly |-> sc.monochromeOnly,
     saveToDb |-> sv.saveToDb, userId |-> sv.userId, character |-> sv.character,
     emotionNames |-> Null]

\* a list of the greatest length the model sends
FullLength(list) == list # Null /\ Len(list) = MaxItems

\* text-to-image requests. The lists of MaxItems prompts come with the
\* default style, with a theme only in batch mode, and without persistence
\* unless the request is a preview request with the full directive and no
\* theme; the shorter lists come with every choice, except that the requests
\* that ask for persistence leave the style to its default, are preview or
\* batch requests, and are preview requests without a theme when the owner
\* id or the character description is missing. A token comes with the
\* preview requests that ask for persistence in full and name no theme.
TextRequests ==
    {r \in {MkRequest(id, mode, prompts, Null, theme, sc, sv, auth) :
                id \in Ids, mode \in {"text2img", "preview", "batch"},
                prompts \in PromptLists \cup {Null}, theme \in Themes,
                sc \in StyleChoices, sv \in SaveChoices, auth \in AuthHeaders} :
        /\ r.authorization # None =>
                /\ r.mode = "preview" /\ r.theme = None /\ r.id = "m1"
                /\ r.saveToDb /\ r.userId # None /\ r.character # None
                /\ ~FullLength(r.prompts)
        /\ r.saveToDb =>
                      /\ r.style = None
                      /\ r.mode # "text2img"
                      /\ (r.userId = None \/ r.character = None) =>
                                r.mode = "preview" /\ r.theme = None
                      /\ r.mode = "batch" => ~FullLength(r.prompts)
        /\ FullLength(r.prompts) =>
                      /\ r.style = None
                      /\ r.theme # None => r.mode = "batch"
                      /\ r.saveToDb => r.userId # None /\ r.character # None}

\* image-to-image requests: at most the first image comes with a prompt,
\* the style is left to its default; the requests that ask for persistence
\* send fewer than MaxItems images, and no theme when the owner id or the
\* character description is missing
ImgRequests ==
    {r \in {MkRequest(id, "img2img", prompts, images, theme,
                      [style |-> None, monochromeOnly |-> TRUE], sv, None) :
                id \in Ids, prompts \in {Null, <<"ko1">>},
                images \in ImageLists \cup {Null}, theme \in Themes, sv \in SaveChoices} :
        r.saveToDb =>
            /\ ~FullLength(r.images)
            /\ (r.userId = None \/ r.character = None) => r.theme = None}

Requests == TextRequests \cup ImgRequests

\* requests of the batches that run concurrently in SpecConc: one prompt,
\* single pass, nothing persisted
SmallRequests ==
    {MkRequest("m1", "preview", <<t>>, Null, None,
               [style |-> None, monochromeOnly |-> TRUE],
               [saveToDb |-> FALSE, userId |-> None, character |-> None], None) : t \in {"ko1"}}

\* lora_models table: id -> replicate_model_name
lora_models == [m1 |-> "owner/lora-m1"]

\* ------------------------------------------------------------- JS helpers
\* truthiness of a string-valued field
Truthy(v) == v # None /\ v # ""

\* a JS array that is present and non-empty (an absent array is Null)
NonEmptyArray(v) == v # Null /\ Len(v) > 0

\* v[k] for a 0-based k, undefined outside the array or when v is absent
At(v, k) == IF v # Null /\ k + 1 \in 1..Len(v) THEN v[k + 1] ELSE None

RECURSIVE SelectIdx(_, _, _)
\* the elements of s that satisfy Test, in order (Array.prototype.filter)
SelectIdx(s, Test(_), k) ==
    IF k > Len(s) THEN <<>>
    ELSE (IF Test(s[k]) THEN <<s[k]>> ELSE <<>>) \o SelectIdx(s, Test, k + 1)

Filter(s, Test(_)) == SelectIdx(s, Test, 1)

\* ------------------------------------------- image references and outputs
\* An image reference is a string; the model keeps its scheme, the item and
\* the stage of the synthesis call that produced it.
HttpRef(i, stage) == <<"http", i, stage>>
OtherRef(i, stage) == <<"ftp", i, stage>>
DataRef(i, stage) == <<"data", i, stage>>      \* a data: URL
Undefined == <<"undefined">>            \* String(undefined)

\* String.prototype.startsWith('http')
StartsWithHttp(u) == Len(u) > 0 /\ u[1] = "http"

\* responses of replicate.run: a list, a bare string, an object, or
\* something else (null, undefined)
OutList(elems) == [shape |-> "list", elems |-> elems, val |-> Null,
                   url |-> Null, output |-> Null, first |-> Null]
OutString(v) == [shape |-> "string", elems |-> <<>>, val |-> v,
                 url |-> Null, output |-> Null, first |-> Null]
OutObject(u, o, f) == [shape |-> "object", elems |-> <<>>, val |-> Null,
                       url |-> u, output |-> o, first |-> f]
OutNull == [shape |-> "null", elems |-> <<>>, val |-> Null,
            url |-> Null, output |-> Null, first |-> Null]
OutUndefined == [shape |-> "undefined", elems |-> <<>>, val |-> Null,
                 url |-> Null, output |-> Null, first |-> Null]

\* well-formed responses of the synthesis call of item i, stage s
GoodOutputs(i, s) ==
    LET r == HttpRef(i, s)
    IN  {OutList(<<r>>), OutString(r), OutObject(r, Null, Null),
         OutObject(Null, r, Null), OutObject(Null, Null, r)}

\* responses that carry no http reference
BadOutputs(i, s) ==
    {OutList(<<>>), OutList(<<OtherRef(i, s)>>), OutString(OtherRef(i, s)),
     OutString(DataRef(i, s)),
     OutObject(Null, Null, Null), OutNull, OutUndefined}

\* replicate.run rejected
Thrown == [shape |-> "throw", elems |-> <<>>, val |-> Null,
           url |-> Null, output |-> Null, first |-> Null]
REPLICATE_ERROR == "Request to Replicate failed"

\* the local `output` before the first replicate.run has returned
NoOutput == [shape |-> "none", elems |-> <<>>, val |-> Null,
             url |-> Null, output |-> Null, first |-> Null]

\* everything a synthesis call of item i, stage s may answer
SynthAnswers(i, s) == GoodOutputs(i, s) \cup BadOutputs(i, s) \cup {Thrown}

\* what an answer of the synthesis service is, for the record of the run:
\* the reference it carries (first element of a list, a bare string, a
\* URL-bearing field of an object), and whether the call failed, carried no
\* reference, carried one that is no http URL, or carried an http URL
AnswerRef(out) ==
    IF out.shape = "list" /\ Len(out.elems) > 0 THEN out.elems[1]
    ELSE IF out.shape = "string" THEN out.val
    ELSE IF out.shape = "object" /\ out.url # Null THEN out.url
    ELSE IF out.shape = "object" /\ out.output # Null THEN out.output
    ELSE IF out.shape = "object" THEN out.first
    ELSE Null

AnswerKind(out) ==
    IF out.shape = "throw" THEN "failed call"
    ELSE IF AnswerRef(out) = Null THEN "no reference"
    ELSE IF AnswerRef(out)[1] # "http" THEN "not http"
    ELSE "http"

\* String(output[0])
FirstOf(elems) == IF Len(elems) > 0 THEN elems[1] ELSE Undefined

\* (output).url || (output).output || (output)[0]
UrlField(out) ==
    IF out.url # Null THEN out.url
    ELSE IF out.output # Null THEN out.output
    ELSE out.first

TypeOf(out) == IF out.shape = "undefined" THEN "undefined" ELSE "object"

\* Step 1 extraction: the reference, or the error that is thrown
ExtractStep1(out) ==
    LET found ==
            IF out.shape = "list" THEN [ok |-> TRUE, url |-> FirstOf(out.elems), error |-> None]
            ELSE IF out.shape = "string" THEN [ok |-> TRUE, url |-> out.val, error |-> None]
            ELSE IF out.shape = "object" THEN
                IF UrlField(out) # Null
                THEN [ok |-> TRUE, url |-> UrlField(out), error |-> None]
                ELSE [ok |-> FALSE, url |-> Null, error |-> "Cannot find URL in output object"]
            ELSE [ok |-> FALSE, url |-> Null,
                  error |-> IF TypeOf(out) = "undefined"
                            THEN "Invalid output format: undefined"
                            ELSE "Invalid output format: object"]
    IN  IF found.ok /\ ~StartsWithHttp(found.url)
        THEN [ok |-> FALSE, url |-> Null, error |-> "Invalid URL returned from Replicate"]
        ELSE found

\* Step 2 extraction: finalUrl starts as imageUrl and is overwritten when the
\* response has one of the accepted shapes
ExtractStep2(out, imageUrl) ==
    IF out.shape = "list" THEN FirstOf(out.elems)
    ELSE IF out.shape = "string" THEN out.val
    ELSE IF out.shape = "object" /\ UrlField(out) # Null THEN UrlField(out)
    ELSE imageUrl

\* ------------------------------------------------------- prompt compilation
\* A prompt is the sequence of its comma-separated clauses.
STYLE_PROMPTS == [pencil |-> "soft pencil sketch", pen |-> "VERY BOLD thick black marker pen"]

ColorPrompt(monochromeOnly) ==
    IF monochromeOnly THEN "black and white only" ELSE "colorful, vibrant colors"

\* finalPrompt of the text2img branch
FinalPromptText(translatedPrompt, translatedTheme) ==
    IF translatedTheme # None
    THEN <<translatedPrompt, "in context of", translatedTheme>>
    ELSE <<translatedPrompt>>

\* fullPrompt of the text2img branch
FullPrompt(finalPrompt, style, monochromeOnly) ==
    finalPrompt
    \o <<IF Truthy(style) THEN STYLE_PROMPTS[style] ELSE "hand-drawn sketch with marker pen strokes">>
    \o <<"strong black outlines", ColorPrompt(monochromeOnly),
         "chibi proportions", "simple flat dash eyes", "absolutely NO long tail",
         "white background">>

\* stylePrompt of the img2img branch; finalPrompt is <<>> when the item has
\* no prompt
StylePrompt(finalPrompt, style, monochromeOnly) ==
    LET stylePrefix == IF Truthy(style) THEN STYLE_PROMPTS[style] ELSE "rough doodle sketch"
    IN  IF Len(finalPrompt) > 0
        THEN finalPrompt \o <<stylePrefix, "strong black outlines", ColorPrompt(monochromeOnly),
                              "chibi proportions", "small simple flat eyes",
                              "absolutely NO long tail", "white background">>
        ELSE <<stylePrefix, "strong black outlines", ColorPrompt(monochromeOnly),
               "chibi proportions", "small simple flat eyes", "white background">>

\* ------------------------------------------------------------ classification
VALID_CATEGORIES == {"cute", "daily", "work", "love", "funny", "animal", "food", "seasonal"}

\* replies of the language service to the classification prompt: text with
\* no bracketed part, text whose bracketed part is not JSON, or text that
\* embeds a JSON array
ReplyError == [kind |-> "error", array |-> <<>>]      \* generateContent rejected
ReplyNoArray == [kind |-> "noArray", array |-> <<>>]
ReplyBadJson == [kind |-> "badJson", array |-> <<>>]
ReplyArray(a) == [kind |-> "array", array |-> a]
ClassifyReplies ==
    {ReplyNoArray, ReplyBadJson, ReplyArray(<<"cute", "animal">>),
     ReplyArray(<<"kawaii", "cute">>)}

IsValidCategory(c) == c \in VALID_CATEGORIES

\* ParseCategories with no default for a bracketed part that is not JSON
ParseCategories_NoDefault(reply) ==
    IF reply.kind = "error" THEN <<"daily">>
    ELSE IF reply.kind = "noArray" THEN <<"daily">>
    ELSE Filter(reply.array, IsValidCategory)

\* ParseCategories returning the parsed array as the model gave it
ParseCategories_NoFilter(reply) ==
    IF reply.kind = "error" THEN <<"daily">>
    ELSE IF reply.kind = "noArray" THEN <<"daily">>
    ELSE IF reply.kind = "badJson" THEN <<"daily">>
    ELSE reply.array

\* body of classifyCategories after the call
ParseCategories(reply) ==
    IF reply.kind = "error" THEN <<"daily">>
    ELSE IF reply.kind = "noArray" THEN <<"daily">>
    ELSE IF reply.kind = "badJson" THEN <<"daily">>
    ELSE Filter(reply.array, IsValidCategory)

\* ----------------------------------------------------------------- state
VARIABLES
    env,                \* process.env: is REPLICATE_API_TOKEN configured
    batch,              \* batch[p]: the execution of POST for batch p
    translationCache,   \* Map source text -> translation, process-wide
    langCalls,          \* history: generateContent calls issued by translateToEnglish, per text
    emoticon_series,    \* datastore table of aggregate records
    emoticon_scenes,    \* datastore table of child records
    storage,            \* object storage: path -> content
    faults,             \* failing external answers met so far
    save,               \* save[q]: the execution of POST /api/emoticons/save for request q
    gen,                \* the execution of POST /api/emoticons/generate-scenes
    train,              \* the execution of POST /api/lora/train
    lora_rows,          \* datastore table lora_models as the train route writes it
    lora_credits,       \* credits left, per user
    trainings           \* training jobs started at the external service

\* the state of the routes other than test-flux-lora
routes == <<save, gen, train, lora_rows, lora_credits, trainings>>

vars == <<env, batch, translationCache, langCalls, emoticon_series,
          emoticon_scenes, storage, faults, save, gen, train, lora_rows,
          lora_credits, trainings>>

\* locals of the save route before a request arrived
IdleSave ==
    [pc |-> "idle", req |-> Null, authUser |-> None, k |-> 0, fileName |-> Null,
     publicUrl |-> Null, newRow |-> Null, results |-> <<>>, resp |-> Null]

\* locals of the generate-scenes route before a request arrived
IdleGen == [pc |-> "idle", req |-> Null, reply |-> <<>>, resp |-> Null]

\* locals of the train route before a request arrived
IdleTrain ==
    [pc |-> "idle", req |-> Null, loraModel |-> Null, zipFileName |-> Null,
     training |-> Null, resp |-> Null]

\* credits of the accounts before a request arrived
InitialCredits == [user1 |-> 1, user2 |-> 0]

\* the routes other than test-flux-lora have met no request
RoutesIdle ==
    /\ save = [q \in Savers |-> IdleSave]
    /\ gen = IdleGen
    /\ train = IdleTrain
    /\ lora_rows = {}
    /\ lora_credits = InitialCredits
    /\ trainings = {}

\* locals of POST before a request arrived
IdleBatch ==
    [pc |-> "idle", req |-> Null, itemCount |-> 0, model |-> None, i |-> 0,
     trFor |-> None, trText |-> None, trResult |-> None,
     translatedPrompt |-> None, translatedTheme |-> None,
     whiteBackgroundImage |-> None, inputParams |-> Null,
     output |-> NoOutput, imageUrl |-> Null, finalUrl |-> Null,
     results |-> <<>>, successCount |-> 0, categories |-> <<>>, series |-> Null,
     savedSeriesId |-> Null, successfulResults |-> <<>>, pending |-> {},
     sceneRecords |-> <<>>, log |-> <<>>, resp |-> Null]

Init ==
    /\ env \in [REPLICATE_API_TOKEN : BOOLEAN]
    /\ batch = [p \in Batches |-> IdleBatch]
    /\ translationCache = [t \in {} |-> None]
    /\ langCalls = [t \in Texts |-> 0]
    /\ emoticon_series = {}
    /\ emoticon_scenes = <<>>
    /\ storage = [q \in {} |-> Null]
    /\ faults = 0
    /\ RoutesIdle

\* an external answer that is a failure is taken only within the budget
Fault(isFault) ==
    IF isFault THEN faults < MaxFaults /\ faults' = faults + 1 ELSE faults' = faults

\* ----------------------------------------------------- request-derived flags
ActualMode(rq) == IF rq.mode = "preview" \/ rq.mode = "batch" THEN "text2img" ELSE rq.mode
\* IsPreviewMode with the preview mode not told apart from text2img
IsPreviewMode_Never(rq) == rq.mode = "preview" /\ rq.mode = "text2img"

IsPreviewMode(rq) == rq.mode = "preview"
IsBatchMode(rq) == rq.mode = "batch"
IsText2Img(rq) == ActualMode(rq) = "text2img"

\* ------------------------------------------------------------ logged events
SynthCall(i, stage, prompt, image) ==
    [ev |-> "synth", item |-> i, stage |-> stage, prompt |-> prompt, image |-> image]
WaitEv(ms) == [ev |-> "wait", ms |-> ms]
TranslateEv(i, for, text) == [ev |-> "translate", item |-> i, for |-> for, text |-> text]
TranslateHitEv(i, for, text, value) ==
    [ev |-> "translateHit", item |-> i, for |-> for, text |-> text, value |-> value]
TranslateAnswerEv(i, for, text, reply) ==
    [ev |-> "translateAnswer", item |-> i, for |-> for, text |-> text, reply |-> reply]
SynthAnswerEv(i, stage, kind, ref) ==
    [ev |-> "synthAnswer", item |-> i, stage |-> stage, kind |-> kind, ref |-> ref]
NormalizeEv(i, url, ok) == [ev |-> "normalize", item |-> i, url |-> url, ok |-> ok]
ConvertEv(i, ok) == [ev |-> "convert", item |-> i, ok |-> ok]
ClassifyEv(theme, character) == [ev |-> "classify", theme |-> theme, character |-> character]
ClassifyAnswerEv(reply) == [ev |-> "classifyAnswer", reply |-> reply]
SeriesInsertEv == [ev |-> "seriesInsert"]
SeriesAnswerEv(ok) == [ev |-> "seriesAnswer", ok |-> ok]
UploadEv(index, path) == [ev |-> "upload", index |-> index, path |-> path]
ScenesInsertEv(records) == [ev |-> "scenesInsert", records |-> records]

\* ------------------------------------------------------------- fixed waits
STEP2_WAIT == 15000       \* before Step 2
ITEM_WAIT == 15000        \* before the next prompt
PREVIEW_WAIT == 2000      \* before the next prompt, preview mode

\* ----------------------------------------------------------- result records
SuccessResult(rq, i, url, tdu) ==
    [index |-> i,
     prompt |-> IF IsText2Img(rq) THEN At(rq.prompts, i) ELSE None,
     originalDataUrl |-> IF IsText2Img(rq) THEN None ELSE rq.images[i + 1],
     generatedUrl |-> url, transparentDataUrl |-> tdu,
     success |-> TRUE, error |-> None]

FailureResult(rq, i, message) ==
    [index |-> i,
     prompt |-> IF IsText2Img(rq) THEN At(rq.prompts, i) ELSE None,
     originalDataUrl |-> IF IsText2Img(rq) THEN None ELSE rq.images[i + 1],
     generatedUrl |-> Null, transparentDataUrl |-> Null,
     success |-> FALSE, error |-> message]

IsSuccess(r) == r.success

\* ------------------------------------------------- segments of the handler
\* Each operator is the code POST runs from one point up to its next await;
\* it maps the batch's locals b to the locals at that await.

\* Respond with the failures counted as the items that left no result
Respond_FailedOfMissing(b) ==
    [b EXCEPT !.pc = "done",
              !.resp = [status |-> 200, success |-> TRUE, mode |-> b.req.mode,
                        results |-> b.results, total |-> b.itemCount,
                        successCount |-> b.successCount,
                        failedCount |-> b.itemCount - Len(b.results),
                        savedSeriesId |-> b.savedSeriesId]]

\* NextResponse.json of the batch result
Respond(b) ==
    [b EXCEPT !.pc = "done",
              !.resp = [status |-> 200, success |-> TRUE, mode |-> b.req.mode,
                        results |-> b.results, total |-> b.itemCount,
                        successCount |-> b.successCount,
                        failedCount |-> b.itemCount - b.successCount,
                        savedSeriesId |-> b.savedSeriesId]]

\* NextResponse.json of a request-level error
RespondError(b, status, message) ==
    [b EXCEPT !.pc = "done", !.resp = [status |-> status, error |-> message]]

\* FinishLoop with persistence not conditioned on a successful item
FinishLoop_NoSuccessCheck(b) ==
    LET rq == b.req
        successCount == Len(Filter(b.results, IsSuccess))
        b1 == [b EXCEPT !.successCount = successCount]
    IN  IF rq.saveToDb /\ Truthy(rq.userId) /\ Truthy(rq.character)
        THEN [b1 EXCEPT !.pc = "classifyWait",
                        !.log = Append(@, ClassifyEv(IF Truthy(rq.theme) THEN rq.theme ELSE "",
                                                     rq.character))]
        ELSE Respond(b1)

\* the code after the item loop, up to the classification call or the response
FinishLoop(b) ==
    LET rq == b.req
        successCount == Len(Filter(b.results, IsSuccess))
        b1 == [b EXCEPT !.successCount = successCount]
    IN  IF rq.saveToDb /\ Truthy(rq.userId) /\ Truthy(rq.character) /\ successCount > 0
        THEN [b1 EXCEPT !.pc = "classifyWait",
                        !.log = Append(@, ClassifyEv(IF Truthy(rq.theme) THEN rq.theme ELSE "",
                                                     rq.character))]
        ELSE Respond(b1)

\* locals of one loop iteration go out of scope
ClearItem(b) ==
    [b EXCEPT !.trFor = None, !.trText = None, !.trResult = None,
              !.translatedPrompt = None, !.translatedTheme = None,
              !.whiteBackgroundImage = None, !.inputParams = Null,
              !.output = NoOutput, !.imageUrl = Null, !.finalUrl = Null]

\* top of the loop body for item b.i
BeginItem(b) ==
    IF IsText2Img(b.req)
    THEN [b EXCEPT !.pc = "translate", !.trFor = "prompt", !.trText = b.req.prompts[b.i + 1]]
    ELSE [b EXCEPT !.pc = "convertWait"]

\* EndItem with no wait after an item that failed
EndItem_NoWaitAfterFailure(b, result) ==
    LET b1 == [ClearItem(b) EXCEPT !.results = Append(@, result)]
    IN  IF b.i < b.itemCount - 1
        THEN IF result.success
             THEN [b1 EXCEPT !.pc = "waitNext",
                             !.log = Append(@, WaitEv(IF IsPreviewMode(b.req)
                                                      THEN PREVIEW_WAIT ELSE ITEM_WAIT))]
             ELSE BeginItem([b1 EXCEPT !.i = @ + 1])
        ELSE FinishLoop(b1)

\* EndItem with the loop left at the first item that failed
EndItem_AbortOnFailure(b, result) ==
    LET b1 == [ClearItem(b) EXCEPT !.results = Append(@, result)]
    IN  IF b.i < b.itemCount - 1 /\ result.success
        THEN [b1 EXCEPT !.pc = "waitNext",
                        !.log = Append(@, WaitEv(IF IsPreviewMode(b.req)
                                                 THEN PREVIEW_WAIT ELSE ITEM_WAIT))]
        ELSE FinishLoop(b1)

\* EndItem with the failed items left out of the results
EndItem_DropFailed(b, result) ==
    LET b1 == [ClearItem(b) EXCEPT !.results = IF result.success THEN Append(@, result) ELSE @]
    IN  IF b.i < b.itemCount - 1
        THEN [b1 EXCEPT !.pc = "waitNext",
                        !.log = Append(@, WaitEv(IF IsPreviewMode(b.req)
                                                 THEN PREVIEW_WAIT ELSE ITEM_WAIT))]
        ELSE FinishLoop(b1)

\* results.push(result), then the wait before the next item or the end of the loop
EndItem(b, result) ==
    LET b1 == [ClearItem(b) EXCEPT !.results = Append(@, result)]
    IN  IF b.i < b.itemCount - 1
        THEN [b1 EXCEPT !.pc = "waitNext",
                        !.log = Append(@, WaitEv(IF IsPreviewMode(b.req)
                                                 THEN PREVIEW_WAIT ELSE ITEM_WAIT))]
        ELSE FinishLoop(b1)

\* IssueStep1 with a clause in the prompt that depends on the item's position
IssueStep1_IndexInPrompt(b, finalPrompt) ==
    LET rq == b.req
        base == IF IsText2Img(rq)
                THEN FullPrompt(finalPrompt, rq.style, rq.monochromeOnly)
                ELSE StylePrompt(finalPrompt, rq.style, rq.monochromeOnly)
        prompt == base \o <<IF b.i = 0 THEN "first scene" ELSE "later scene">>
        image == IF IsText2Img(rq) THEN None ELSE b.whiteBackgroundImage
    IN  [b EXCEPT !.inputParams = [prompt |-> prompt, image |-> image],
                  !.pc = "step1Wait",
                  !.log = Append(@, SynthCall(b.i, 1, prompt, image))]

\* prompt assembly and the first replicate.run
IssueStep1(b, finalPrompt) ==
    LET rq == b.req
        prompt == IF IsText2Img(rq)
                  THEN FullPrompt(finalPrompt, rq.style, rq.monochromeOnly)
                  ELSE StylePrompt(finalPrompt, rq.style, rq.monochromeOnly)
        image == IF IsText2Img(rq) THEN None ELSE b.whiteBackgroundImage
    IN  [b EXCEPT !.inputParams = [prompt |-> prompt, image |-> image],
                  !.pc = "step1Wait",
                  !.log = Append(@, SynthCall(b.i, 1, prompt, image))]

\* is the theme clause built for this request
ThemeUsed(rq) == Truthy(rq.theme) /\ (IsText2Img(rq) => IsBatchMode(rq))

\* request parsing, validation and the call of resolveReplicateModelById
Validate(b, rq, tokenConfigured) ==
    LET b1 == [b EXCEPT !.req = rq]
    IN  IF rq.mode = "img2img" /\ ~NonEmptyArray(rq.images)
        THEN RespondError(b1, 400, "Missing required field for img2img mode: images")
        ELSE IF IsText2Img(rq) /\ ~NonEmptyArray(rq.prompts)
        THEN RespondError(b1, 400, "Missing required field for text2img/preview/batch mode: prompts")
        ELSE IF ~tokenConfigured
        THEN RespondError(b1, 500, "REPLICATE_API_TOKEN not configured")
        ELSE IF ~Truthy(rq.id)
        THEN RespondError([b1 EXCEPT !.itemCount = IF IsText2Img(rq) THEN Len(rq.prompts)
                                                   ELSE Len(rq.images)],
                          400, "model id is required")
        ELSE [b1 EXCEPT !.itemCount = IF IsText2Img(rq) THEN Len(rq.prompts) ELSE Len(rq.images),
                        !.pc = "resolveWait"]

\* ----------------------------------------------------------------- actions
\* POST is entered with a request drawn from R
ReceiveFrom(p, R) ==
    /\ batch[p].pc = "idle"
    /\ \E rq \in R : batch' = [batch EXCEPT ![p] = Validate(batch[p], rq, env.REPLICATE_API_TOKEN)]
    /\ UNCHANGED <<env, routes, translationCache, langCalls, emoticon_series, emoticon_scenes,
                   storage, faults>>

Receive(p) == ReceiveFrom(p, Requests)

ReceiveSmall(p) == ReceiveFrom(p, SmallRequests)

\* ResolveReturn with an id that has no row accepted
ResolveReturn_UnknownIdProceeds(p) ==
    LET b == batch[p]
    IN  /\ b.pc = "resolveWait"
        /\ \E dbOk \in BOOLEAN :
            /\ Fault(~dbOk)
            /\ batch' = [batch EXCEPT ![p] =
                    IF dbOk
                    THEN BeginItem([b EXCEPT !.model = IF b.req.id \in DOMAIN lora_models
                                                       THEN lora_models[b.req.id]
                                                       ELSE "undefined",
                                             !.i = 0])
                    ELSE RespondError(b, 500, "Invalid model id")]
        /\ UNCHANGED <<env, routes, translationCache, langCalls, emoticon_series, emoticon_scenes, storage>>

\* resolveReplicateModelById returns or throws; the loop starts with item 0
ResolveReturn(p) ==
    LET b == batch[p]
    IN  /\ b.pc = "resolveWait"
        /\ \E dbOk \in BOOLEAN :
            /\ Fault(~dbOk)
            /\ batch' = [batch EXCEPT ![p] =
                    IF dbOk /\ b.req.id \in DOMAIN lora_models
                    THEN BeginItem([b EXCEPT !.model = lora_models[b.req.id], !.i = 0])
                    ELSE RespondError(b, 500, "Invalid model id")]
        /\ UNCHANGED <<env, routes, translationCache, langCalls, emoticon_series, emoticon_scenes, storage>>

\* convertTransparentToWhite returns: the flattened image, or the input when
\* the conversion failed; then the prompt of the item, if any, is translated
Flatten(dataUrl) == [img1 |-> "img1 on white"][dataUrl]

\* ConvertReturn with the input image passed on as it came
ConvertReturn_KeepsInput(p) ==
    LET b == batch[p]
    IN  /\ b.pc = "convertWait"
        /\ \E ok \in BOOLEAN :
            /\ Fault(~ok)
            /\ LET img == b.req.images[b.i + 1]
                   b1 == [b EXCEPT !.whiteBackgroundImage = img,
                                   !.log = Append(@, ConvertEv(b.i, ok))]
               IN  batch' = [batch EXCEPT ![p] =
                        IF Truthy(At(b.req.prompts, b.i))
                        THEN [b1 EXCEPT !.pc = "translate", !.trFor = "prompt",
                                        !.trText = At(b.req.prompts, b.i)]
                        ELSE IssueStep1(b1, <<>>)]
        /\ UNCHANGED <<env, routes, translationCache, langCalls, emoticon_series, emoticon_scenes, storage>>

ConvertReturn(p) ==
    LET b == batch[p]
    IN  /\ b.pc = "convertWait"
        /\ \E ok \in BOOLEAN :
            /\ Fault(~ok)
            /\ LET img == b.req.images[b.i + 1]
                   b1 == [b EXCEPT !.whiteBackgroundImage = IF ok THEN Flatten(img) ELSE img,
                                   !.log = Append(@, ConvertEv(b.i, ok))]
               IN  batch' = [batch EXCEPT ![p] =
                        IF Truthy(At(b.req.prompts, b.i))
                        THEN [b1 EXCEPT !.pc = "translate", !.trFor = "prompt",
                                        !.trText = At(b.req.prompts, b.i)]
                        ELSE IssueStep1(b1, <<>>)]
        /\ UNCHANGED <<env, routes, translationCache, langCalls, emoticon_series, emoticon_scenes, storage>>

\* TranslateToEnglishCall with the cache never consulted
TranslateToEnglishCall_NoCache(p) ==
    LET b == batch[p]
        text == b.trText
    IN  /\ b.pc = "translate"
        /\ batch' = [batch EXCEPT ![p].pc = "translateWait",
                                  ![p].log = Append(@, TranslateEv(b.i, b.trFor, text))]
        /\ langCalls' = [langCalls EXCEPT ![text] = @ + 1]
        /\ UNCHANGED <<env, routes, translationCache, emoticon_series, emoticon_scenes, storage, faults>>

\* TranslateToEnglishCall with a cache hit returning the source text
TranslateToEnglishCall_HitReturnsInput(p) ==
    LET b == batch[p]
        text == b.trText
    IN  /\ b.pc = "translate"
        /\ IF text \in DOMAIN translationCache
           THEN /\ batch' = [batch EXCEPT ![p].pc = "translated", ![p].trResult = text,
                                          ![p].log = Append(@, TranslateHitEv(b.i, b.trFor, text, text))]
                /\ UNCHANGED langCalls
           ELSE /\ batch' = [batch EXCEPT ![p].pc = "translateWait",
                                          ![p].log = Append(@, TranslateEv(b.i, b.trFor, text))]
                /\ langCalls' = [langCalls EXCEPT ![text] = @ + 1]
        /\ UNCHANGED <<env, routes, translationCache, emoticon_series, emoticon_scenes, storage, faults>>

\* translateToEnglish up to its await: a cache hit returns the stored value,
\* a miss issues generateContent
TranslateToEnglishCall(p) ==
    LET b == batch[p]
        text == b.trText
    IN  /\ b.pc = "translate"
        /\ IF text \in DOMAIN translationCache
           THEN /\ batch' = [batch EXCEPT ![p].pc = "translated",
                                          ![p].trResult = translationCache[text],
                                          ![p].log = Append(@, TranslateHitEv(b.i, b.trFor, text,
                                                                              translationCache[text]))]
                /\ UNCHANGED langCalls
           ELSE /\ batch' = [batch EXCEPT ![p].pc = "translateWait",
                                          ![p].log = Append(@, TranslateEv(b.i, b.trFor, text))]
                /\ langCalls' = [langCalls EXCEPT ![text] = @ + 1]
        /\ UNCHANGED <<env, routes, translationCache, emoticon_series, emoticon_scenes, storage, faults>>

\* Map.prototype.set
MapSet(m, k, v) == [x \in DOMAIN m \cup {k} |-> IF x = k THEN v ELSE m[x]]

\* TranslateToEnglishReturn with the input text cached when the call failed
TranslateToEnglishReturn_CachesInput(p) ==
    LET b == batch[p]
        text == b.trText
    IN  /\ b.pc = "translateWait"
        /\ \E reply \in {English[text][p], None} :
            /\ Fault(reply = None)
            /\ translationCache' = MapSet(translationCache, text,
                                          IF reply # None THEN reply ELSE text)
            /\ batch' = [batch EXCEPT ![p].pc = "translated",
                            ![p].trResult = IF reply # None THEN reply ELSE text,
                            ![p].log = Append(@, TranslateAnswerEv(b.i, b.trFor, text, reply))]
        /\ UNCHANGED <<env, routes, langCalls, emoticon_series, emoticon_scenes, storage>>

\* generateContent returns a translation, which is cached, or fails, and the
\* input text is returned
TranslateToEnglishReturn(p) ==
    LET b == batch[p]
        text == b.trText
    IN  /\ b.pc = "translateWait"
        /\ \E reply \in {English[text][p], None} :
            /\ Fault(reply = None)
            /\ IF reply # None
               THEN /\ translationCache' = MapSet(translationCache, text, reply)
                    /\ batch' = [batch EXCEPT ![p].pc = "translated", ![p].trResult = reply,
                                    ![p].log = Append(@, TranslateAnswerEv(b.i, b.trFor, text, reply))]
               ELSE /\ UNCHANGED translationCache
                    /\ batch' = [batch EXCEPT ![p].pc = "translated", ![p].trResult = text,
                                    ![p].log = Append(@, TranslateAnswerEv(b.i, b.trFor, text, None))]
        /\ UNCHANGED <<env, routes, langCalls, emoticon_series, emoticon_scenes, storage>>

\* POST resumes after await translateToEnglish(...): the theme is translated
\* next, or the prompt is assembled and Step 1 is called
AfterTranslate(p) ==
    LET b == batch[p]
    IN  /\ b.pc = "translated"
        /\ batch' = [batch EXCEPT ![p] =
                IF b.trFor = "prompt"
                THEN IF ThemeUsed(b.req)
                     THEN [b EXCEPT !.translatedPrompt = b.trResult, !.trFor = "theme",
                                    !.trText = b.req.theme, !.trResult = None,
                                    !.pc = "translate"]
                     ELSE IssueStep1([b EXCEPT !.translatedPrompt = b.trResult],
                                     FinalPromptText(b.trResult, None))
                ELSE IssueStep1([b EXCEPT !.translatedTheme = b.trResult],
                                FinalPromptText(b.translatedPrompt, b.trResult))]
        /\ UNCHANGED <<env, routes, translationCache, langCalls, emoticon_series, emoticon_scenes,
                       storage, faults>>

\* the record of the run notes what the synthesis service answered
Answered(b, stage, out) ==
    [b EXCEPT !.log = Append(@, SynthAnswerEv(b.i, stage, AnswerKind(out), AnswerRef(out)))]

\* Step1Return with a rejected call issued again
Step1Return_RetryOnThrow(p) ==
    LET b == batch[p]
        rq == b.req
    IN  /\ b.pc = "step1Wait"
        /\ \E out \in SynthAnswers(b.i, 1) :
            /\ Fault(out \notin GoodOutputs(b.i, 1))
            /\ batch' = [batch EXCEPT ![p] =
                    LET b0 == Answered(b, 1, out)
                    IN  IF out = Thrown
                        THEN [b0 EXCEPT !.log = Append(@, SynthCall(b.i, 1, b.inputParams.prompt,
                                                                    b.inputParams.image))]
                        ELSE LET ex == ExtractStep1(out)
                             IN  IF ~ex.ok THEN EndItem(b0, FailureResult(rq, b.i, ex.error))
                                 ELSE IF IsText2Img(rq) /\ ~IsPreviewMode(rq)
                                 THEN [b0 EXCEPT !.output = out,
                                                 !.imageUrl = ex.url, !.finalUrl = ex.url,
                                                 !.pc = "waitStep2",
                                                 !.log = Append(@, WaitEv(STEP2_WAIT))]
                                 ELSE [b0 EXCEPT !.output = out,
                                                 !.imageUrl = ex.url, !.finalUrl = ex.url,
                                                 !.pc = "normalizeWait"]]
        /\ UNCHANGED <<env, routes, translationCache, langCalls, emoticon_series, emoticon_scenes, storage>>

\* the first replicate.run returns: Step 1 extraction, then the wait before
\* Step 2, or the fetch of the image, or the failure of the item
Step1Return(p) ==
    LET b == batch[p]
        rq == b.req
    IN  /\ b.pc = "step1Wait"
        /\ \E out \in SynthAnswers(b.i, 1) :
            /\ Fault(out \notin GoodOutputs(b.i, 1))
            /\ batch' = [batch EXCEPT ![p] =
                    LET b0 == Answered(b, 1, out)
                    IN  IF out = Thrown THEN EndItem(b0, FailureResult(rq, b.i, REPLICATE_ERROR))
                        ELSE LET ex == ExtractStep1(out)
                             IN  IF ~ex.ok THEN EndItem(b0, FailureResult(rq, b.i, ex.error))
                                 ELSE IF IsText2Img(rq) /\ ~IsPreviewMode(rq)
                                 THEN [b0 EXCEPT !.output = out,
                                                 !.imageUrl = ex.url, !.finalUrl = ex.url,
                                                 !.pc = "waitStep2",
                                                 !.log = Append(@, WaitEv(STEP2_WAIT))]
                                 ELSE [b0 EXCEPT !.output = out,
                                                 !.imageUrl = ex.url, !.finalUrl = ex.url,
                                                 !.pc = "normalizeWait"]]
        /\ UNCHANGED <<env, routes, translationCache, langCalls, emoticon_series, emoticon_scenes, storage>>

\* Step2Call with a prompt of its own
Step2Call_OtherPrompt(p) ==
    LET b == batch[p]
    IN  /\ b.pc = "waitStep2"
        /\ batch' = [batch EXCEPT ![p].pc = "step2Wait",
                                  ![p].output = NoOutput,
                                  ![p].log = Append(@, SynthCall(b.i, 2, Tail(b.inputParams.prompt),
                                                                 b.imageUrl))]
        /\ UNCHANGED <<env, routes, translationCache, langCalls, emoticon_series, emoticon_scenes,
                       storage, faults>>

\* the wait is over: the second replicate.run, on the output of Step 1
Step2Call(p) ==
    LET b == batch[p]
    IN  /\ b.pc = "waitStep2"
        /\ batch' = [batch EXCEPT ![p].pc = "step2Wait",
                                  ![p].output = NoOutput,
                                  ![p].log = Append(@, SynthCall(b.i, 2, b.inputParams.prompt,
                                                                 b.imageUrl))]
        /\ UNCHANGED <<env, routes, translationCache, langCalls, emoticon_series, emoticon_scenes,
                       storage, faults>>

\* Step2Return with a failed call falling back on the image of Step 1
Step2Return_Fallback(p) ==
    LET b == batch[p]
    IN  /\ b.pc = "step2Wait"
        /\ \E out \in SynthAnswers(b.i, 2) :
            /\ Fault(out \notin GoodOutputs(b.i, 2))
            /\ batch' = [batch EXCEPT ![p] =
                    LET b0 == Answered(b, 2, out)
                    IN  [b0 EXCEPT !.finalUrl = IF out = Thrown THEN b.imageUrl
                                                ELSE ExtractStep2(out, b.imageUrl),
                                   !.pc = "normalizeWait"]]
        /\ UNCHANGED <<env, routes, translationCache, langCalls, emoticon_series, emoticon_scenes, storage>>

\* Step2Return with a failed call tried again after the wait
Step2Return_RetryAfterWait(p) ==
    LET b == batch[p]
    IN  /\ b.pc = "step2Wait"
        /\ \E out \in SynthAnswers(b.i, 2) :
            /\ Fault(out \notin GoodOutputs(b.i, 2))
            /\ batch' = [batch EXCEPT ![p] =
                    LET b0 == Answered(b, 2, out)
                    IN  IF out = Thrown
                        THEN [b0 EXCEPT !.pc = "waitStep2",
                                        !.log = Append(@, WaitEv(STEP2_WAIT))]
                        ELSE [b0 EXCEPT !.finalUrl = ExtractStep2(out, b.imageUrl),
                                        !.pc = "normalizeWait"]]
        /\ UNCHANGED <<env, routes, translationCache, langCalls, emoticon_series, emoticon_scenes, storage>>

\* the second replicate.run returns: Step 2 extraction, then the fetch
Step2Return(p) ==
    LET b == batch[p]
    IN  /\ b.pc = "step2Wait"
        /\ \E out \in SynthAnswers(b.i, 2) :
            /\ Fault(out \notin GoodOutputs(b.i, 2))
            /\ batch' = [batch EXCEPT ![p] =
                    LET b0 == Answered(b, 2, out)
                    IN  IF out = Thrown
                        THEN EndItem(b0, FailureResult(b.req, b.i, REPLICATE_ERROR))
                        ELSE [b0 EXCEPT !.finalUrl = ExtractStep2(out, b.imageUrl),
                                        !.pc = "normalizeWait"]]
        /\ UNCHANGED <<env, routes, translationCache, langCalls, emoticon_series, emoticon_scenes, storage>>

\* the PNG data URL sharp builds from the image behind url
PngOf(url) == <<"data:image/png">> \o url

\* fetch(convertedUrl) resolves only for a reference it can parse and load:
\* an http(s) URL or a data: URL
Fetchable(url) == StartsWithHttp(url) \/ (Len(url) > 0 /\ url[1] = "data")

\* EndNormalize with a failed conversion failing the item
EndNormalize_FailsItem(b, ok) ==
    LET b0 == [b EXCEPT !.log = Append(@, NormalizeEv(b.i, b.finalUrl, ok))]
    IN  IF ok
        THEN EndItem(b0, SuccessResult(b.req, b.i, b.finalUrl, PngOf(b.finalUrl)))
        ELSE EndItem(b0, FailureResult(b.req, b.i, "PNG conversion failed"))

\* the end of the PNG conversion, completed or caught: the item is pushed
\* as a success, with the PNG or with null
EndNormalize(b, ok) ==
    EndItem([b EXCEPT !.log = Append(@, NormalizeEv(b.i, b.finalUrl, ok))],
            SuccessResult(b.req, b.i, b.finalUrl, IF ok THEN PngOf(b.finalUrl) ELSE Null))

\* fetch(convertedUrl) returns or throws
NormalizeFetchReturn(p) ==
    LET b == batch[p]
    IN  /\ b.pc = "normalizeWait"
        /\ \E ok \in BOOLEAN :
            /\ ok => Fetchable(b.finalUrl)
            /\ Fault(~ok /\ Fetchable(b.finalUrl))
            /\ batch' = [batch EXCEPT ![p] =
                    IF ok THEN [b EXCEPT !.pc = "arrayBufferWait"] ELSE EndNormalize(b, FALSE)]
        /\ UNCHANGED <<env, routes, translationCache, langCalls, emoticon_series, emoticon_scenes, storage>>

\* imageResponse.arrayBuffer() returns or throws: sharp is started
NormalizeBufferReturn(p) ==
    LET b == batch[p]
    IN  /\ b.pc = "arrayBufferWait"
        /\ \E ok \in BOOLEAN :
            /\ Fault(~ok)
            /\ batch' = [batch EXCEPT ![p] =
                    IF ok THEN [b EXCEPT !.pc = "sharpWait"] ELSE EndNormalize(b, FALSE)]
        /\ UNCHANGED <<env, routes, translationCache, langCalls, emoticon_series, emoticon_scenes, storage>>

\* sharp(...).toBuffer() returns or throws
NormalizeReturn(p) ==
    LET b == batch[p]
    IN  /\ b.pc = "sharpWait"
        /\ \E ok \in BOOLEAN :
            /\ Fault(~ok)
            /\ batch' = [batch EXCEPT ![p] = EndNormalize(b, ok)]
        /\ UNCHANGED <<env, routes, translationCache, langCalls, emoticon_series, emoticon_scenes, storage>>

\* NextItem with the loop index not advanced
NextItem_SameItem(p) ==
    LET b == batch[p]
    IN  /\ b.pc = "waitNext"
        /\ batch' = [batch EXCEPT ![p] = BeginItem(b)]
        /\ UNCHANGED <<env, routes, translationCache, langCalls, emoticon_series, emoticon_scenes,
                       storage, faults>>

\* the wait between two items is over
NextItem(p) ==
    LET b == batch[p]
    IN  /\ b.pc = "waitNext"
        /\ batch' = [batch EXCEPT ![p] = BeginItem([b EXCEPT !.i = @ + 1])]
        /\ UNCHANGED <<env, routes, translationCache, langCalls, emoticon_series, emoticon_scenes,
                       storage, faults>>

\* ------------------------------------------------------------- persistence
\* ClassifyReturn with a failed classification ending the persistence phase
ClassifyReturn_FailureSkipsInsert(p) ==
    LET b == batch[p]
    IN  /\ b.pc = "classifyWait"
        /\ \E reply \in ClassifyReplies \cup {ReplyError} :
            /\ Fault(reply.kind # "array")
            /\ batch' = [batch EXCEPT ![p] =
                    IF reply.kind = "error"
                    THEN Respond([b EXCEPT !.log = Append(@, ClassifyAnswerEv(reply))])
                    ELSE [b EXCEPT !.categories = ParseCategories(reply),
                                   !.pc = "seriesWait",
                                   !.log = @ \o <<ClassifyAnswerEv(reply), SeriesInsertEv>>]]
        /\ UNCHANGED <<env, routes, translationCache, langCalls, emoticon_series, emoticon_scenes, storage>>

\* classifyCategories returns its tags; the aggregate insert is issued
ClassifyReturn(p) ==
    LET b == batch[p]
    IN  /\ b.pc = "classifyWait"
        /\ \E reply \in ClassifyReplies \cup {ReplyError} :
            /\ Fault(reply.kind # "array")
            /\ batch' = [batch EXCEPT ![p].categories = ParseCategories(reply),
                                      ![p].pc = "seriesWait",
                                      ![p].log = @ \o <<ClassifyAnswerEv(reply), SeriesInsertEv>>]
        /\ UNCHANGED <<env, routes, translationCache, langCalls, emoticon_series, emoticon_scenes, storage>>

\* SeriesRow with num_scenes the number of items requested
SeriesRow_NumScenesRequested(id, rq, successCount, categories) ==
    [id |-> id, user_id |-> rq.userId,
     theme |-> IF Truthy(rq.theme) THEN rq.theme ELSE "Custom Sketch",
     title |-> <<rq.character, IF Truthy(rq.theme) THEN rq.theme ELSE "Sketch">>,
     character_description |-> rq.character,
     num_scenes |-> IF rq.mode = "img2img" THEN Len(rq.images) ELSE Len(rq.prompts),
     categories |-> categories,
     metadata |-> [style |-> IF Truthy(rq.style) THEN rq.style ELSE "pen",
                   generation_method |-> "pro_flux_lora", created_from |-> "pro",
                   monochromeOnly |-> rq.monochromeOnly]]

\* the row inserted into emoticon_series
SeriesRow(id, rq, successCount, categories) ==
    [id |-> id, user_id |-> rq.userId,
     theme |-> IF Truthy(rq.theme) THEN rq.theme ELSE "Custom Sketch",
     title |-> <<rq.character, IF Truthy(rq.theme) THEN rq.theme ELSE "Sketch">>,
     character_description |-> rq.character, num_scenes |-> successCount,
     categories |-> categories,
     metadata |-> [style |-> IF Truthy(rq.style) THEN rq.style ELSE "pen",
                   generation_method |-> "pro_flux_lora", created_from |-> "pro",
                   monochromeOnly |-> rq.monochromeOnly]]

IsStorable(r) == r.success /\ r.transparentDataUrl # Null

\* `emoticons/${series.id}/scene_${result.index}.png`
FileName(seriesId, index) == <<"emoticons", seriesId, index>>

SceneTitles == <<"Scene 1", "Scene 2", "Scene 3", "Scene 4">>

\* emotionNames?.[index] || prompts?.[index] || `Scene ${idx + 1}`
EmotionName(rq, index, idx) ==
    IF Truthy(At(rq.emotionNames, index)) THEN At(rq.emotionNames, index)
    ELSE IF Truthy(At(rq.prompts, index)) THEN At(rq.prompts, index)
    ELSE SceneTitles[idx + 1]

\* SceneRecord numbered and stored by position among the uploads
SceneRecord_PositionNumber(rq, seriesId, result, idx) ==
    [series_id |-> seriesId, scene_number |-> idx,
     title |-> EmotionName(rq, result.index, idx), narrative |-> "",
     prompt |-> <<rq.character, EmotionName(rq, result.index, idx)>>,
     image_url |-> <<"public">> \o FileName(seriesId, idx),
     metadata |-> [original_style |-> IF Truthy(rq.style) THEN rq.style ELSE "pen",
                   monochromeOnly |-> rq.monochromeOnly]]

\* the record pushed to sceneRecords for successfulResults[idx]
SceneRecord(rq, seriesId, result, idx) ==
    [series_id |-> seriesId, scene_number |-> result.index,
     title |-> EmotionName(rq, result.index, idx), narrative |-> "",
     prompt |-> <<rq.character, EmotionName(rq, result.index, idx)>>,
     image_url |-> <<"public">> \o FileName(seriesId, result.index),
     metadata |-> [original_style |-> IF Truthy(rq.style) THEN rq.style ELSE "pen",
                   monochromeOnly |-> rq.monochromeOnly]]

\* SeriesInsertReturn with the error of the insert ignored
SeriesInsertReturn_IgnoresError(p) ==
    LET b == batch[p]
        id == <<"series", Cardinality(emoticon_series) + 1>>
        successfulResults == Filter(b.results, IsStorable)
        uploads == [k \in 1..Len(successfulResults) |->
                        UploadEv(successfulResults[k].index,
                                 FileName(id, successfulResults[k].index))]
    IN  /\ b.pc = "seriesWait"
        /\ \E ok \in BOOLEAN :
            /\ Fault(~ok)
            /\ emoticon_series' = IF ok THEN emoticon_series \cup
                                        {SeriesRow(id, b.req, b.successCount, b.categories)}
                                  ELSE emoticon_series
            /\ batch' = [batch EXCEPT ![p].series = id, ![p].savedSeriesId = id,
                                      ![p].successfulResults = successfulResults,
                                      ![p].pending = 1..Len(successfulResults),
                                      ![p].pc = "uploads",
                                      ![p].log = Append(@, SeriesAnswerEv(ok)) \o uploads]
        /\ UNCHANGED <<env, routes, translationCache, langCalls, emoticon_scenes, storage>>

\* the aggregate insert returns: on an error persistence is abandoned, else
\* the upload of every storable result is started
SeriesInsertReturn(p) ==
    LET b == batch[p]
        id == <<"series", Cardinality(emoticon_series) + 1>>
        successfulResults == Filter(b.results, IsStorable)
        uploads == [k \in 1..Len(successfulResults) |->
                        UploadEv(successfulResults[k].index,
                                 FileName(id, successfulResults[k].index))]
    IN  /\ b.pc = "seriesWait"
        /\ \E ok \in BOOLEAN :
            /\ Fault(~ok)
            /\ IF ok
               THEN /\ emoticon_series' = emoticon_series \cup
                            {SeriesRow(id, b.req, b.successCount, b.categories)}
                    /\ batch' = [batch EXCEPT ![p].series = id, ![p].savedSeriesId = id,
                                              ![p].successfulResults = successfulResults,
                                              ![p].pending = 1..Len(successfulResults),
                                              ![p].pc = "uploads",
                                              ![p].log = Append(@, SeriesAnswerEv(TRUE)) \o uploads]
               ELSE /\ UNCHANGED emoticon_series
                    /\ batch' = [batch EXCEPT ![p] =
                            Respond([b EXCEPT !.log = Append(@, SeriesAnswerEv(FALSE))])]
        /\ UNCHANGED <<env, routes, translationCache, langCalls, emoticon_scenes, storage>>

\* PushRecord with the collection replaced instead of appended to
PushRecord_Overwrite(sceneRecords, record) == <<record>>

\* sceneRecords.push(record)
PushRecord(sceneRecords, record) == Append(sceneRecords, record)

\* UploadReturn with a failed upload marking its item as failed
UploadReturn_MarksFailed(p) ==
    LET b == batch[p]
    IN  /\ b.pc = "uploads"
        /\ \E k \in b.pending, outcome \in {"ok", "error", "throw"} :
            LET result == b.successfulResults[k]
                fileName == FileName(b.series, result.index)
            IN  /\ Fault(outcome # "ok")
                /\ IF outcome = "ok"
                   THEN /\ storage' = MapSet(storage, fileName, Tail(result.transparentDataUrl))
                        /\ batch' = [batch EXCEPT ![p].pending = @ \ {k},
                                        ![p].sceneRecords =
                                            PushRecord(@, SceneRecord(b.req, b.series, result, k - 1))]
                   ELSE /\ UNCHANGED storage
                        /\ batch' = [batch EXCEPT ![p].pending = @ \ {k},
                                        ![p].results[result.index + 1].success = FALSE]
        /\ UNCHANGED <<env, routes, translationCache, langCalls, emoticon_series, emoticon_scenes>>

\* one upload returns, in any order: its record is collected, or the image
\* is skipped
UploadReturn(p) ==
    LET b == batch[p]
    IN  /\ b.pc = "uploads"
        /\ \E k \in b.pending, outcome \in {"ok", "error", "throw"} :
            LET result == b.successfulResults[k]
                fileName == FileName(b.series, result.index)
            IN  /\ Fault(outcome # "ok")
                /\ IF outcome = "ok"
                   THEN /\ storage' = MapSet(storage, fileName, Tail(result.transparentDataUrl))
                        /\ batch' = [batch EXCEPT ![p].pending = @ \ {k},
                                        ![p].sceneRecords =
                                            PushRecord(@, SceneRecord(b.req, b.series, result, k - 1))]
                   ELSE /\ UNCHANGED storage
                        /\ batch' = [batch EXCEPT ![p].pending = @ \ {k}]
        /\ UNCHANGED <<env, routes, translationCache, langCalls, emoticon_series, emoticon_scenes>>

\* UploadsDone with the uploads not awaited
UploadsDone_Early(p) ==
    LET b == batch[p]
    IN  /\ b.pc = "uploads"
        /\ batch' = [batch EXCEPT ![p] =
                IF Len(b.sceneRecords) > 0
                THEN [b EXCEPT !.pc = "scenesWait",
                               !.log = Append(@, ScenesInsertEv(b.sceneRecords))]
                ELSE Respond(b)]
        /\ UNCHANGED <<env, routes, translationCache, langCalls, emoticon_series, emoticon_scenes,
                       storage, faults>>

\* Promise.all resolved: one bulk insert of the collected records, if any
UploadsDone(p) ==
    LET b == batch[p]
    IN  /\ b.pc = "uploads"
        /\ b.pending = {}
        /\ batch' = [batch EXCEPT ![p] =
                IF Len(b.sceneRecords) > 0
                THEN [b EXCEPT !.pc = "scenesWait",
                               !.log = Append(@, ScenesInsertEv(b.sceneRecords))]
                ELSE Respond(b)]
        /\ UNCHANGED <<env, routes, translationCache, langCalls, emoticon_series, emoticon_scenes,
                       storage, faults>>

\* ScenesInsertReturn with the aggregate rolled back when the insert failed
ScenesInsertReturn_Rollback(p) ==
    LET b == batch[p]
    IN  /\ b.pc = "scenesWait"
        /\ \E outcome \in {"ok", "error", "throw"} :
            /\ Fault(outcome # "ok")
            /\ emoticon_scenes' = IF outcome = "ok" THEN emoticon_scenes \o b.sceneRecords
                                  ELSE emoticon_scenes
            /\ batch' = [batch EXCEPT ![p] =
                    IF outcome = "ok" THEN Respond(b)
                    ELSE Respond([b EXCEPT !.savedSeriesId = Null])]
        /\ UNCHANGED <<env, routes, translationCache, langCalls, emoticon_series, storage>>

\* ScenesInsertReturn with a rejected insert reaching the caller
ScenesInsertReturn_ThrowPropagates(p) ==
    LET b == batch[p]
    IN  /\ b.pc = "scenesWait"
        /\ \E outcome \in {"ok", "error", "throw"} :
            /\ Fault(outcome # "ok")
            /\ emoticon_scenes' = IF outcome = "ok" THEN emoticon_scenes \o b.sceneRecords
                                  ELSE emoticon_scenes
            /\ batch' = [batch EXCEPT ![p] =
                    IF outcome = "throw" THEN RespondError(b, 500, "Failed to convert images")
                    ELSE Respond(b)]
        /\ UNCHANGED <<env, routes, translationCache, langCalls, emoticon_series, storage>>

\* the bulk insert returns; its error is logged only
ScenesInsertReturn(p) ==
    LET b == batch[p]
    IN  /\ b.pc = "scenesWait"
        /\ \E outcome \in {"ok", "error", "throw"} :
            /\ Fault(outcome # "ok")
            /\ emoticon_scenes' = IF outcome = "ok" THEN emoticon_scenes \o b.sceneRecords
                                  ELSE emoticon_scenes
            /\ batch' = [batch EXCEPT ![p] = Respond(b)]
        /\ UNCHANGED <<env, routes, translationCache, langCalls, emoticon_series, storage>>

\* ----------------------------------------------------------- specifications
\* one batch, any request
Next ==
    \/ Receive(1)
    \/ ResolveReturn(1)
    \/ ConvertReturn(1)
    \/ TranslateToEnglishCall(1)
    \/ TranslateToEnglishReturn(1)
    \/ AfterTranslate(1)
    \/ Step1Return(1)
    \/ Step2Call(1)
    \/ Step2Return(1)
    \/ NormalizeFetchReturn(1)
    \/ NormalizeBufferReturn(1)
    \/ NormalizeReturn(1)
    \/ NextItem(1)
    \/ ClassifyReturn(1)
    \/ SeriesInsertReturn(1)
    \/ UploadReturn(1)
    \/ UploadsDone(1)
    \/ ScenesInsertReturn(1)

Spec == Init /\ [][Next]_vars

\* MaxBatches batches of one prompt each, interleaved at their awaits and
\* sharing the translation cache
NextConc ==
    \E p \in Batches :
        \/ ReceiveSmall(p)
        \/ ResolveReturn(p)
        \/ TranslateToEnglishCall(p)
        \/ TranslateToEnglishReturn(p)
        \/ AfterTranslate(p)
        \/ Step1Return(p)
        \/ NormalizeFetchReturn(p)
        \/ NormalizeBufferReturn(p)
        \/ NormalizeReturn(p)

SpecConc == Init /\ [][NextConc]_vars

\* ================================================================== claims
\* the batch got past validation and model resolution
Accepted(b) == b.pc \notin {"idle", "resolveWait"} /\ (b.pc = "done" => b.resp.status = 200)

\* the batch has answered with a BatchResult
Answered200(b) == b.pc = "done" /\ b.resp.status = 200

\* number of items of a request
NumItems(rq) == IF rq.mode = "img2img" THEN Len(rq.images) ELSE Len(rq.prompts)

\* events of a batch's record, by kind
Events(b, kind) == {k \in 1..Len(b.log) : b.log[k].ev = kind}

\* C1: an accepted request with N items is answered with exactly N results,
\* the k-th (0-based) carrying index k, whichever items fail; while the loop
\* runs the results collected so far are those of the items done, in order.
C1_ResultsAligned ==
    \A p \in Batches :
        LET b == batch[p]
        IN  Accepted(b) =>
                /\ \A k \in 1..Len(b.results) : b.results[k].index = k - 1
                /\ Len(b.results) <= NumItems(b.req)
                /\ b.pc = "done" =>
                        /\ b.resp.results = b.results
                        /\ Len(b.resp.results) = NumItems(b.req)

\* a two-item batch answered with the first item failed and the second successful
C1_Witness ==
    \E p \in Batches :
        LET b == batch[p]
        IN  /\ Answered200(b)
            /\ Len(b.resp.results) = 2
            /\ ~b.resp.results[1].success
            /\ b.resp.results[2].success

\* the synthesis calls issued for item i at a stage, and their answers
SynthCalls(b, i, stage) ==
    {k \in Events(b, "synth") : b.log[k].item = i /\ b.log[k].stage = stage}
SynthAnswersOf(b, i, stage) ==
    {k \in Events(b, "synthAnswer") : b.log[k].item = i /\ b.log[k].stage = stage}

\* C2: in modes text2img and batch, an item whose Stage 1 succeeded and whose
\* Stage 2 call failed is reported with success = false and an error message,
\* and its final image is not the output of Stage 1.
C2_Stage2FailureFailsItem ==
    \A p \in Batches :
        LET b == batch[p]
        IN  \A k \in Events(b, "synthAnswer") :
                (b.log[k].stage = 2 /\ b.log[k].kind = "failed call") =>
                    LET i == b.log[k].item
                    IN  /\ Len(b.results) > i
                        /\ ~b.results[i + 1].success
                        /\ b.results[i + 1].error # None
                        /\ \A j \in SynthAnswersOf(b, i, 1) :
                                b.results[i + 1].generatedUrl # b.log[j].ref
                        /\ b.pc = "done" => b.resp.results[i + 1] = b.results[i + 1]

\* a batch answered after the Stage 2 call of an item failed
C2_Witness ==
    \E p \in Batches :
        LET b == batch[p]
        IN  /\ Answered200(b)
            /\ b.req.mode \in {"text2img", "batch"}
            /\ \E k \in Events(b, "synthAnswer") :
                    /\ b.log[k].stage = 2
                    /\ b.log[k].kind = "failed call"
                    /\ SynthAnswersOf(b, b.log[k].item, 1) # {}

\* C3: in modes text2img and batch the final image of every successful item
\* is the reference its Stage 2 call returned, and never the output of Stage 1.
C3_FinalIsStage2Output ==
    \A p \in Batches :
        LET b == batch[p]
        IN  (b.pc # "idle" /\ b.req.mode \in {"text2img", "batch"}) =>
                \A n \in 1..Len(b.results) :
                    b.results[n].success =>
                        /\ \E k \in SynthAnswersOf(b, n - 1, 2) :
                                b.results[n].generatedUrl = b.log[k].ref
                        /\ \A j \in SynthAnswersOf(b, n - 1, 1) :
                                b.results[n].generatedUrl # b.log[j].ref

\* C4: every answer of the synthesis service that is a failed call, carries
\* no reference or carries one that is no http URL, at Stage 1 or Stage 2,
\* makes its item a failure with an error message.
C4_SynthErrorFailsItem ==
    \A p \in Batches :
        LET b == batch[p]
        IN  \A k \in Events(b, "synthAnswer") :
                (b.log[k].kind # "http" /\ Len(b.results) > b.log[k].item) =>
                    /\ ~b.results[b.log[k].item + 1].success
                    /\ b.results[b.log[k].item + 1].error # None

\* C5: in preview mode every item gets exactly one synthesis call, none of
\* them at Stage 2, and the final image of a successful item is the
\* reference that call returned.
C5_PreviewSinglePass ==
    \A p \in Batches :
        LET b == batch[p]
        IN  (b.pc # "idle" /\ b.req.mode = "preview") =>
                /\ \A k \in Events(b, "synth") : b.log[k].stage = 1
                /\ \A i \in 0..(MaxItems + 1) :
                        Cardinality({k \in Events(b, "synth") : b.log[k].item = i}) <= 1
                /\ \A n \in 1..Len(b.results) :
                        /\ Cardinality({k \in Events(b, "synth") : b.log[k].item = n - 1}) = 1
                        /\ b.results[n].success =>
                                \E k \in SynthAnswersOf(b, n - 1, 1) :
                                    /\ b.log[k].kind = "http"
                                    /\ b.results[n].generatedUrl = b.log[k].ref

\* a preview batch of two items answered with a successful item
C5_Witness ==
    \E p \in Batches :
        LET b == batch[p]
        IN  /\ Answered200(b)
            /\ b.req.mode = "preview"
            /\ Len(b.resp.results) = 2
            /\ b.resp.results[2].success

\* C6 as claimed: the language service is invoked at most once for each
\* distinct source text, failed requests and concurrent batches included.
C6_AtMostOncePerText == \A t \in Texts : langCalls[t] <= 1

\* C6 as amended: the language service is never invoked for a source text
\* whose translation is in the cache, so a text is translated again only
\* while no translation of it has been stored (its request failed, or a
\* concurrent batch missed it at the same time).
C6_NoCallOnceCached ==
    [][\A t \in Texts : langCalls'[t] # langCalls[t] => t \notin DOMAIN translationCache]_vars

\* two batches have translated the same text and the service was called once
C6_Witness ==
    \E p \in Batches : \E q \in Batches \ {p} :
        /\ batch[p].pc # "idle" /\ batch[q].pc # "idle"
        /\ batch[p].req.prompts = batch[q].req.prompts
        /\ langCalls[batch[p].req.prompts[1]] = 1
        /\ Events(batch[p], "translate") # {}
        /\ Events(batch[q], "translate") = {}
        /\ Events(batch[q], "synth") # {}

\* C7: translate called with a text that is in the cache returns the stored
\* value, issues no language-service call and leaves the cache unchanged.
C7_CacheHit ==
    [][\A p \in Batches :
            (/\ batch[p].pc = "translate"
             /\ batch[p].trText \in DOMAIN translationCache
             /\ batch'[p] # batch[p]) =>
                /\ batch'[p].pc = "translated"
                /\ batch'[p].trResult = translationCache[batch[p].trText]
                /\ Events(batch'[p], "translate") = Events(batch[p], "translate")
                /\ Events(batch'[p], "translateAnswer") = Events(batch[p], "translateAnswer")
                /\ langCalls' = langCalls
                /\ translationCache' = translationCache]_vars

\* the prompt of the second item has just been answered from the cache
C7_Witness ==
    \E p \in Batches :
        LET b == batch[p]
        IN  /\ b.pc = "translated"
            /\ b.i = 1
            /\ b.trFor = "prompt"
            /\ b.trText \in DOMAIN translationCache
            /\ b.trResult = translationCache[b.trText]
            /\ \A k \in Events(b, "translate") : b.log[k].item = 0

\* C8: when the language-service call of translate fails, translate returns
\* the input text and writes nothing to the cache, and the item goes on to
\* its synthesis call with the untranslated text instead of failing.
C8_FailedTranslationInPrompt ==
    \A p \in Batches :
        LET b == batch[p]
        IN  \A k \in Events(b, "translateAnswer") :
                b.log[k].reply = None =>
                    /\ \A c \in SynthCalls(b, b.log[k].item, 1) :
                            IF b.log[k].for = "prompt"
                            THEN b.log[c].prompt[1] = b.log[k].text
                            ELSE b.log[c].prompt[3] = b.log[k].text
                    /\ Len(b.results) > b.log[k].item => SynthCalls(b, b.log[k].item, 1) # {}

C8_TranslateFailOpen ==
    /\ []C8_FailedTranslationInPrompt
    /\ [][\A p \in Batches :
            (/\ batch[p].pc = "translateWait"
             /\ batch'[p].pc = "translated"
             /\ batch'[p].log[Len(batch'[p].log)].reply = None) =>
                /\ batch'[p].trResult = batch[p].trText
                /\ translationCache' = translationCache]_vars

\* an item whose prompt could not be translated was synthesized and succeeded
C8_Witness ==
    \E p \in Batches :
        LET b == batch[p]
        IN  \E k \in Events(b, "translateAnswer") :
                /\ b.log[k].reply = None
                /\ b.log[k].for = "prompt"
                /\ SynthCalls(b, b.log[k].item, 1) # {}
                /\ Len(b.results) > b.log[k].item
                /\ b.results[b.log[k].item + 1].success

\* the results whose image was normalized and uploaded
Uploaded(b) ==
    {n \in 1..Len(b.results) :
        /\ b.results[n].success
        /\ b.results[n].transparentDataUrl # Null
        /\ FileName(b.series, b.results[n].index) \in DOMAIN storage}

\* C9: once the aggregate record is created, the child records passed to the
\* bulk insert are exactly the successful items with a normalized image
\* whose upload succeeded, one record each, whatever the order in which the
\* uploads return; with no such item no bulk insert is issued.
C9_ChildRecordsExact ==
    \A p \in Batches :
        LET b == batch[p]
        IN  (b.series # Null /\ b.pc \in {"scenesWait", "done"}) =>
                /\ Cardinality(Events(b, "scenesInsert")) <= 1
                /\ Events(b, "scenesInsert") = {} => Uploaded(b) = {}
                /\ \A k \in Events(b, "scenesInsert") :
                        LET R == b.log[k].records
                        IN  /\ Len(R) = Cardinality(Uploaded(b))
                            /\ \A n \in Uploaded(b) :
                                    Cardinality({m \in 1..Len(R) :
                                        /\ R[m].scene_number = b.results[n].index
                                        /\ R[m].series_id = b.series}) = 1

\* two items had a normalized image, one upload failed, one record was inserted
C9_Witness ==
    \E p \in Batches :
        LET b == batch[p]
        IN  /\ b.pc = "done"
            /\ Len(b.successfulResults) = 2
            /\ \E k \in Events(b, "scenesInsert") : Len(b.log[k].records) = 1

\* C10: once the aggregate record is created, its id is the aggregate id
\* returned to the caller whatever happens afterwards, and no aggregate
\* record and no uploaded blob is ever deleted.
C10_IdKept ==
    \A p \in Batches :
        LET b == batch[p]
        IN  b.series # Null =>
                /\ b.savedSeriesId = b.series
                /\ \E row \in emoticon_series : row.id = b.series
                /\ b.pc = "done" =>
                        /\ b.resp.status = 200
                        /\ b.resp.savedSeriesId = b.series

C10_AggregateIdReturned ==
    /\ []C10_IdKept
    /\ [][/\ emoticon_series \subseteq emoticon_series'
          /\ \A q \in DOMAIN storage : q \in DOMAIN storage']_vars

\* the aggregate id was returned although an upload and the bulk insert failed
C10_Witness ==
    \E p \in Batches :
        LET b == batch[p]
        IN  /\ b.pc = "done"
            /\ b.series # Null
            /\ b.resp.savedSeriesId = b.series
            /\ Len(b.successfulResults) = 2
            /\ Len(b.sceneRecords) = 1
            /\ emoticon_scenes = <<>>

\* C11: when the creation of the aggregate record fails, the batch is
\* answered with a null aggregate id, and no upload and no bulk insert of
\* child records is attempted for it.
C11_SeriesFailureAborts ==
    \A p \in Batches :
        LET b == batch[p]
        IN  \A k \in Events(b, "seriesAnswer") :
                ~b.log[k].ok =>
                    /\ b.pc = "done"
                    /\ b.resp.status = 200
                    /\ b.resp.savedSeriesId = Null
                    /\ b.series = Null
                    /\ Events(b, "upload") = {}
                    /\ Events(b, "scenesInsert") = {}
                    /\ b.sceneRecords = <<>>

\* the aggregate insert failed for a batch with two storable items
C11_Witness ==
    \E p \in Batches :
        LET b == batch[p]
        IN  /\ b.pc = "done"
            /\ \E k \in Events(b, "seriesAnswer") : ~b.log[k].ok
            /\ Len(Filter(b.results, IsStorable)) = 2

\* persistence was requested with an owner id and a character description,
\* and an item succeeded
PersistenceDue(b) ==
    /\ b.req.saveToDb
    /\ Truthy(b.req.userId)
    /\ Truthy(b.req.character)
    /\ \E n \in 1..Len(b.results) : b.results[n].success

\* the calls of the persistence phase a batch has made
PersistenceEvents(b) ==
    {k \in 1..Len(b.log) :
        b.log[k].ev \in {"classify", "classifyAnswer", "seriesInsert", "seriesAnswer",
                         "upload", "scenesInsert"}}

\* C12: the classification call, the aggregate insert, the uploads and the
\* bulk insert are made only for a batch that asked for persistence with an
\* owner id and a character description and has a successful item; any other
\* batch makes none of them and is answered with a null aggregate id, and a
\* batch that qualifies does enter the phase.
C12_PersistenceGuard ==
    \A p \in Batches :
        LET b == batch[p]
        IN  b.pc # "idle" =>
                /\ PersistenceEvents(b) # {} => PersistenceDue(b)
                /\ (Answered200(b) /\ ~PersistenceDue(b)) =>
                        /\ PersistenceEvents(b) = {}
                        /\ b.resp.savedSeriesId = Null
                /\ (Answered200(b) /\ PersistenceDue(b)) => Events(b, "classify") # {}

\* a batch that asked for persistence was answered with every item failed
C12_Witness ==
    \E p \in Batches :
        LET b == batch[p]
        IN  /\ Answered200(b)
            /\ b.req.saveToDb /\ Truthy(b.req.userId) /\ Truthy(b.req.character)
            /\ Len(b.results) = 2
            /\ \A n \in 1..Len(b.results) : ~b.results[n].success
            /\ b.resp.savedSeriesId = Null

\* C13: when the language-service call of classify fails, or its reply has
\* no bracketed part or one that is not JSON, classify returns exactly
\* <<"daily">> and the persistence phase goes on to the aggregate insert
\* with that tag.
C13_ClassifyDefault ==
    \A p \in Batches :
        LET b == batch[p]
        IN  \A k \in Events(b, "classifyAnswer") :
                b.log[k].reply.kind \in {"error", "noArray", "badJson"} =>
                    /\ ParseCategories(b.log[k].reply) = <<"daily">>
                    /\ b.categories = <<"daily">>
                    /\ b.log[k + 1] = SeriesInsertEv
                    /\ \A row \in emoticon_series :
                            row.id = b.series => row.categories = <<"daily">>

\* an aggregate record was created after a reply that could not be parsed
C13_Witness ==
    \E p \in Batches :
        LET b == batch[p]
        IN  /\ b.series # Null
            /\ \E k \in Events(b, "classifyAnswer") : b.log[k].reply.kind = "badJson"
            /\ \E row \in emoticon_series : row.id = b.series /\ row.categories = <<"daily">>

\* synthesis calls issued and not yet answered
InFlight(b) == Cardinality(Events(b, "synth")) - Cardinality(Events(b, "synthAnswer"))

\* the last event of a record
LastEv(b) == b.log[Len(b.log)]

C14_OneInFlightInOrder ==
    \A p \in Batches :
        LET b == batch[p]
            calls == Events(b, "synth")
            answers == Events(b, "synthAnswer")
        IN  /\ Cardinality(calls) - Cardinality(answers) \in {0, 1}
            /\ Cardinality(calls) - Cardinality(answers) = 1
                    <=> b.pc \in {"step1Wait", "step2Wait"}
            /\ \A k1 \in calls : \A k2 \in calls :
                    k1 < k2 =>
                        /\ b.log[k1].item <= b.log[k2].item
                        /\ \E a \in answers : k1 < a /\ a < k2
            /\ \A k \in calls : Len(b.results) >= b.log[k].item

\* C14: within one batch at most one synthesis call is in flight at any
\* time, the calls are issued in the order of the items, and a call for an
\* item is issued only when no call is in flight and the results of all the
\* items before it, and of no other item, have been recorded.
C14_Sequential ==
    /\ []C14_OneInFlightInOrder
    /\ [][\A p \in Batches :
            (/\ Len(batch'[p].log) > Len(batch[p].log)
             /\ LastEv(batch'[p]).ev = "synth") =>
                /\ InFlight(batch[p]) = 0
                /\ LastEv(batch'[p]).item = Len(batch'[p].results)
                /\ batch'[p].results = batch[p].results]_vars

\* the Stage 1 call of the second item is in flight after the first item failed
C14_Witness ==
    \E p \in Batches :
        LET b == batch[p]
        IN  /\ b.pc = "step1Wait"
            /\ b.i = 1
            /\ Len(b.results) = 1
            /\ ~b.results[1].success
            /\ InFlight(b) = 1

\* C15: every item gets at most one Stage 1 call and at most one Stage 2
\* call, whatever fails, so a batch of N items issues at most 2N synthesis
\* calls, and at most N in preview mode and in image-to-image mode.
C15_NoRetry ==
    \A p \in Batches :
        LET b == batch[p]
            calls == Events(b, "synth")
        IN  Accepted(b) =>
                /\ \A k \in calls :
                        /\ b.log[k].stage \in {1, 2}
                        /\ b.log[k].item \in 0..(NumItems(b.req) - 1)
                /\ \A k1 \in calls : \A k2 \in calls :
                        (b.log[k1].item = b.log[k2].item /\ b.log[k1].stage = b.log[k2].stage)
                            => k1 = k2
                /\ Cardinality(calls) <= 2 * NumItems(b.req)
                /\ b.req.mode \in {"preview", "img2img"} =>
                        Cardinality(calls) <= NumItems(b.req)

\* a two-stage batch of two items was answered after 2N calls, an item failed
C15_Witness ==
    \E p \in Batches :
        LET b == batch[p]
        IN  /\ Answered200(b)
            /\ Len(b.results) = 2
            /\ \E n \in 1..2 : ~b.results[n].success
            /\ Cardinality(Events(b, "synth")) = 4

\* the batch runs Stage 2
TwoStage(rq) == IsText2Img(rq) /\ ~IsPreviewMode(rq)

Min(a, c) == IF a <= c THEN a ELSE c

\* C16: exactly one fixed wait lies between two consecutive synthesis calls
\* of a batch: the wait before Stage 2 when both are calls of one item, the
\* inter-item wait otherwise, which is PREVIEW_WAIT in preview mode and the
\* longer ITEM_WAIT in every other mode; every recorded item but the last
\* is followed by one inter-item wait, failed or not, and no wait follows
\* the last item.
C16_WaitsBetweenCalls ==
    \A p \in Batches :
        LET b == batch[p]
            stage2Waits ==
                IF TwoStage(b.req)
                THEN Cardinality({k \in Events(b, "synthAnswer") :
                                    b.log[k].stage = 1 /\ b.log[k].kind = "http"})
                ELSE 0
            calls == Events(b, "synth")
            waits == Events(b, "wait")
        IN  Accepted(b) =>
                /\ PREVIEW_WAIT < ITEM_WAIT
                /\ \A k1 \in calls : \A k2 \in calls :
                        (k1 < k2 /\ ~\E k \in calls : k1 < k /\ k < k2) =>
                            LET between == {w \in waits : k1 < w /\ w < k2}
                            IN  /\ Cardinality(between) = 1
                                /\ \A w \in between :
                                        b.log[w].ms =
                                            IF b.log[k1].item = b.log[k2].item THEN STEP2_WAIT
                                            ELSE IF b.req.mode = "preview" THEN PREVIEW_WAIT
                                            ELSE ITEM_WAIT
                /\ Cardinality(waits) = stage2Waits + Min(Len(b.results), NumItems(b.req) - 1)
                /\ b.pc = "done" => \A w \in waits : \E k \in calls : w < k

\* a two-stage batch whose first item failed at Stage 1 was answered: one
\* inter-item wait and one wait before Stage 2 of the second item
C16_Witness ==
    \E p \in Batches :
        LET b == batch[p]
        IN  /\ Answered200(b)
            /\ b.req.mode = "batch"
            /\ Len(b.results) = 2
            /\ ~b.results[1].success
            /\ b.results[2].success
            /\ Cardinality(Events(b, "wait")) = 2
            /\ SynthCalls(b, 0, 2) = {}

\* item i of the batch met a failure: its result is a failure, or one of its
\* translations failed
ItemFailed(b, i) ==
    \/ Len(b.results) > i /\ ~b.results[i + 1].success
    \/ \E k \in Events(b, "translateAnswer") : b.log[k].item = i /\ b.log[k].reply = None

\* C17: a failure met while an item is processed leaves the later items
\* untouched: the batch goes on to each of them, issues its Stage 1 call and
\* records its result.
C17_FailureConfined ==
    \A p \in Batches :
        LET b == batch[p]
        IN  Accepted(b) =>
                \A i \in 0..(NumItems(b.req) - 1) :
                    ItemFailed(b, i) =>
                        /\ \A j \in (i + 1)..(NumItems(b.req) - 1) :
                                /\ Len(b.results) > j => SynthCalls(b, j, 1) # {}
                                /\ b.pc = "done" => Len(b.results) > j
                        /\ (Len(b.results) > i /\ i < NumItems(b.req) - 1) =>
                                b.pc \notin {"done", "classifyWait", "seriesWait", "uploads",
                                             "scenesWait"}
                                \/ Len(b.results) > i + 1

\* the first item failed at synthesis, the second was synthesized and succeeded
C17_Witness ==
    \E p \in Batches :
        LET b == batch[p]
        IN  /\ Answered200(b)
            /\ Len(b.results) = 2
            /\ ~b.results[1].success
            /\ \E k \in SynthAnswersOf(b, 0, 1) : b.log[k].kind # "http"
            /\ SynthCalls(b, 1, 1) # {}
            /\ b.results[2].success

\* C18: an item whose final image could not be fetched or normalized is
\* reported with success = true, the URL that was fetched, no error and a
\* null normalized image, and the response counts it among the successes.
C18_NormalizeFailureKeepsSuccess ==
    \A p \in Batches :
        LET b == batch[p]
            succeeded == {n \in 1..Len(b.results) : b.results[n].success}
        IN  /\ \A k \in Events(b, "normalize") :
                    ~b.log[k].ok =>
                        LET r == b.results[b.log[k].item + 1]
                        IN  /\ Len(b.results) > b.log[k].item
                            /\ r.success
                            /\ r.error = None
                            /\ r.generatedUrl = b.log[k].url
                            /\ r.generatedUrl # Null
                            /\ r.transparentDataUrl = Null
            /\ Answered200(b) =>
                    /\ b.resp.successCount = Cardinality(succeeded)
                    /\ b.resp.failedCount = Len(b.results) - Cardinality(succeeded)

\* a batch was answered with one success whose image was never normalized
C18_Witness ==
    \E p \in Batches :
        LET b == batch[p]
        IN  /\ Answered200(b)
            /\ \E k \in Events(b, "normalize") : ~b.log[k].ok
            /\ b.resp.successCount = 1
            /\ b.resp.failedCount = 1
            /\ \E n \in 1..Len(b.resp.results) :
                    b.resp.results[n].success /\ b.resp.results[n].transparentDataUrl = Null

\* the request fails validation: no images in image-to-image mode, no
\* prompts in the text modes, no model id, or an id with no model
InvalidRequest(rq) ==
    \/ rq.mode = "img2img" /\ ~NonEmptyArray(rq.images)
    \/ rq.mode \in {"text2img", "preview", "batch"} /\ ~NonEmptyArray(rq.prompts)
    \/ ~Truthy(rq.id)
    \/ rq.id \notin DOMAIN lora_models

\* C19: a request that fails validation is answered with a request-level
\* error, and up to that answer the batch has made no translation call, no
\* synthesis call and no persistence step and has recorded no result.
C19_InvalidRejectedFirst ==
    \A p \in Batches :
        LET b == batch[p]
        IN  (b.pc # "idle" /\ InvalidRequest(b.req)) =>
                /\ b.pc \in {"resolveWait", "done"}
                /\ b.pc = "done" => b.resp.status \in {400, 500} /\ b.resp.error # None
                /\ b.log = <<>>
                /\ b.results = <<>>
                /\ b.series = Null

\* a request naming a model id that has no row was answered with an error
C19_Witness ==
    \E p \in Batches :
        LET b == batch[p]
        IN  /\ b.pc = "done"
            /\ b.req.id = "m9"
            /\ NonEmptyArray(b.req.prompts)
            /\ b.resp.status = 500
            /\ b.log = <<>>

\* C20: once the model is resolved, whatever fails afterwards the batch is
\* answered with status 200 and a BatchResult holding one result per item,
\* each with an explicit success flag and, when it failed, an error message.
C20_AlwaysBatchResult ==
    \A p \in Batches :
        LET b == batch[p]
        IN  (b.model # None /\ b.pc = "done") =>
                /\ b.resp.status = 200
                /\ b.resp.success = TRUE
                /\ Len(b.resp.results) = NumItems(b.req)
                /\ b.resp.total = NumItems(b.req)
                /\ \A n \in 1..Len(b.resp.results) :
                        /\ b.resp.results[n].success \in BOOLEAN
                        /\ ~b.resp.results[n].success => b.resp.results[n].error # None

\* a batch was answered after an item failed and the aggregate insert failed
C20_Witness ==
    \E p \in Batches :
        LET b == batch[p]
        IN  /\ b.pc = "done"
            /\ b.model # None
            /\ \E n \in 1..Len(b.results) : ~b.results[n].success
            /\ \E k \in Events(b, "seriesAnswer") : ~b.log[k].ok
            /\ b.resp.status = 200

\* the steps of the persistence phase
PersistencePcs == {"classifyWait", "seriesWait", "uploads", "scenesWait"}

\* C21: persistence never changes the reported synthesis outcome: no step of
\* the persistence phase, whether it succeeds or fails, changes the results
\* or the success count, and the answer carries the results and the counts
\* the item loop left, as it does when persistence is skipped.
C21_PersistenceKeepsOutcome ==
    /\ [](\A p \in Batches :
            LET b == batch[p]
            IN  Answered200(b) =>
                    /\ b.resp.results = b.results
                    /\ b.resp.successCount =
                            Cardinality({n \in 1..Len(b.results) : b.results[n].success})
                    /\ b.resp.failedCount =
                            Cardinality({n \in 1..Len(b.results) : ~b.results[n].success}))
    /\ [][\A p \in Batches :
            batch[p].pc \in PersistencePcs =>
                /\ batch'[p].results = batch[p].results
                /\ batch'[p].successCount = batch[p].successCount
                /\ batch'[p].itemCount = batch[p].itemCount]_vars

\* a batch was answered with two successful items after one upload and the
\* bulk insert failed
C21_Witness ==
    \E p \in Batches :
        LET b == batch[p]
        IN  /\ Answered200(b)
            /\ Events(b, "scenesInsert") # {}
            /\ Len(b.sceneRecords) < Len(b.successfulResults)
            /\ emoticon_scenes = <<>>
            /\ b.resp.successCount = 2
            /\ b.resp.failedCount = 0

\* the Stage 1 calls a batch has issued
Stage1Calls(b) == {k \in Events(b, "synth") : b.log[k].stage = 1}

\* what the compiler is given for item i: its prompt and its source image
CompilerItem(rq, i) ==
    <<At(rq.prompts, i), IF rq.mode = "img2img" THEN rq.images[i + 1] ELSE None>>

\* the translation translateToEnglish handed back for the prompt or the
\* theme of item i: the cached value, the reply of the language service, or
\* the text itself when the call failed (empty when nothing was translated)
Obtained(b, i, for) ==
    {b.log[k].value : k \in {h \in Events(b, "translateHit") :
                                b.log[h].item = i /\ b.log[h].for = for}}
    \cup {IF b.log[k].reply # None THEN b.log[k].reply ELSE b.log[k].text :
                k \in {h \in Events(b, "translateAnswer") :
                                b.log[h].item = i /\ b.log[h].for = for}}

\* two Stage 1 calls were compiled from identical (item, mode, style, theme,
\* monochrome)
SameCompilerInputs(p, k, q, h) ==
    /\ CompilerItem(batch[p].req, batch[p].log[k].item)
            = CompilerItem(batch[q].req, batch[q].log[h].item)
    /\ batch[p].req.mode = batch[q].req.mode
    /\ batch[p].req.style = batch[q].req.style
    /\ batch[p].req.theme = batch[q].req.theme
    /\ batch[p].req.monochromeOnly = batch[q].req.monochromeOnly

\* C22 as stated: identical (item, mode, style, theme, monochrome) always
\* yield the same compiled prompt, in every state of the translation cache
\* and whether the language-service call succeeds or fails.
C22_Deterministic ==
    \A p \in Batches, q \in Batches :
        \A k \in Stage1Calls(batch[p]), h \in Stage1Calls(batch[q]) :
            SameCompilerInputs(p, k, q, h) => batch[p].log[k].prompt = batch[q].log[h].prompt

\* C22 amended: identical (item, mode, style, theme, monochrome) yield the
\* same compiled prompt whenever the translations obtained for the item's
\* prompt and for the theme are the same.
C22_DeterministicInTranslations ==
    \A p \in Batches :
        LET b == batch[p]
            calls == Stage1Calls(b)
        IN  \A q \in Batches :
                LET c == batch[q]
                    others == Stage1Calls(c)
                IN  \A k \in calls, h \in others :
                        \/ b.log[k].prompt = c.log[h].prompt
                        \/ ~SameCompilerInputs(p, k, q, h)
                        \/ Obtained(b, b.log[k].item, "prompt")
                                # Obtained(c, c.log[h].item, "prompt")
                        \/ Obtained(b, b.log[k].item, "theme")
                                # Obtained(c, c.log[h].item, "theme")

\* two items with the same prompt and theme were compiled to the same
\* prompt, the first from the replies of the language service and the second
\* from the cache
C22_Witness ==
    \E p \in Batches :
        LET b == batch[p]
        IN  \E k \in Stage1Calls(b), h \in Stage1Calls(b) :
                /\ b.log[k].item = 0 /\ b.log[h].item = 1
                /\ SameCompilerInputs(p, k, p, h)
                /\ Truthy(b.req.theme)
                /\ \E a \in Events(b, "translateAnswer") :
                        b.log[a].item = 0 /\ b.log[a].for = "prompt" /\ b.log[a].reply # None
                /\ \E c \in Events(b, "translateHit") :
                        b.log[c].item = 1 /\ b.log[c].for = "prompt"
                /\ \E c \in Events(b, "translateHit") :
                        b.log[c].item = 1 /\ b.log[c].for = "theme"
                /\ b.log[k].prompt = b.log[h].prompt

\* the theme clause is part of a compiled prompt
HasThemeClause(prompt) == \E j \in 1..Len(prompt) : prompt[j] = "in context of"

\* C23: the theme context clause is part of a compiled prompt only when a
\* theme is present and the mode is batch; no prompt of mode text2img,
\* preview or img2img carries it.
C23_ThemeClauseOnlyInBatch ==
    \A p \in Batches :
        LET b == batch[p]
        IN  \A k \in Events(b, "synth") :
                HasThemeClause(b.log[k].prompt) =>
                    /\ Truthy(b.req.theme)
                    /\ b.req.mode = "batch"

\* C24: the persistence steps run in a fixed order: the classification has
\* answered before the aggregate insert is issued, no upload starts before
\* the aggregate was created, and the bulk insert is issued at most once,
\* after every upload has returned.
C24_PersistenceOrder ==
    /\ [](\A p \in Batches :
            LET b == batch[p]
                classifyAnswers == Events(b, "classifyAnswer")
                seriesInserts == Events(b, "seriesInsert")
                seriesAnswers == Events(b, "seriesAnswer")
                uploads == Events(b, "upload")
                scenesInserts == Events(b, "scenesInsert")
            IN  /\ \A s \in seriesInserts : \E c \in classifyAnswers : c < s
                /\ \A u \in uploads :
                        /\ \E a \in seriesAnswers : a < u /\ b.log[a].ok
                        /\ \E row \in emoticon_series : row.id = b.series
                        /\ b.log[u].path[2] = b.series
                /\ \A x \in scenesInserts : \A u \in uploads : u < x
                /\ Cardinality(scenesInserts) <= 1
                /\ scenesInserts # {} => b.pending = {})
    /\ [][\A p \in Batches :
            Events(batch'[p], "scenesInsert") # Events(batch[p], "scenesInsert") =>
                /\ batch[p].pc = "uploads"
                /\ batch[p].pending = {}
                /\ Events(batch[p], "scenesInsert") = {}]_vars

\* the bulk insert of a batch was issued after two uploads returned, the
\* later one first
C24_Witness ==
    \E p \in Batches :
        LET b == batch[p]
        IN  /\ b.pc = "scenesWait"
            /\ Cardinality(Events(b, "upload")) = 2
            /\ Len(b.sceneRecords) = 2
            /\ b.sceneRecords[1].scene_number = 1
            /\ LastEv(b).ev = "scenesInsert"

\* the item loop of a batch is over
LoopOver(b) == b.pc \in PersistencePcs \/ Answered200(b)

\* C25: the classifier is called at most once per batch, never once per
\* item: exactly once when the persistence phase runs and not at all
\* otherwise; whatever it answers, the aggregate insert is attempted next.
C25_ClassifyOncePerBatch ==
    \A p \in Batches :
        LET b == batch[p]
            classifies == Events(b, "classify")
            answers == Events(b, "classifyAnswer")
        IN  /\ Cardinality(classifies) <= 1
            /\ ~LoopOver(b) => classifies = {}
            /\ LoopOver(b) => (Cardinality(classifies) = 1 <=> PersistenceDue(b))
            /\ \A c \in classifies :
                    /\ b.log[c].theme = (IF Truthy(b.req.theme) THEN b.req.theme ELSE "")
                    /\ b.log[c].character = b.req.character
            /\ \A a \in answers :
                    /\ Len(b.log) > a
                    /\ b.log[a + 1] = SeriesInsertEv
                    /\ Cardinality(answers) = 1

\* a batch of two successful items was classified once, the classifier
\* failed, and the aggregate insert was made all the same
C25_Witness ==
    \E p \in Batches :
        LET b == batch[p]
        IN  /\ Answered200(b)
            /\ b.successCount = 2
            /\ Cardinality(Events(b, "classify")) = 1
            /\ \E a \in Events(b, "classifyAnswer") : b.log[a].reply.kind = "error"
            /\ \E row \in emoticon_series : row.id = b.savedSeriesId

\* C26: the sequence number and the storage path of a child record are
\* built from the original request index of its item: the records of a
\* batch have pairwise distinct numbers and paths, whatever the order in
\* which the uploads return, and the order of the results is left as it was.
C26_ChildRecordByRequestIndex ==
    \A p \in Batches :
        LET b == batch[p]
            recs == b.sceneRecords
        IN  /\ \A m \in 1..Len(recs) :
                LET n == recs[m].scene_number
                IN  /\ n \in 0..(Len(b.results) - 1)
                    /\ b.results[n + 1].index = n
                    /\ IsStorable(b.results[n + 1])
                    /\ recs[m].series_id = b.series
                    /\ recs[m].image_url = <<"public", "emoticons", b.series, n>>
                    /\ <<"emoticons", b.series, n>> \in DOMAIN storage
                    /\ storage[<<"emoticons", b.series, n>>]
                            = Tail(b.results[n + 1].transparentDataUrl)
            /\ \A m1 \in 1..Len(recs), m2 \in 1..Len(recs) :
                    m1 # m2 => /\ recs[m1].scene_number # recs[m2].scene_number
                               /\ recs[m1].image_url # recs[m2].image_url
            /\ \A u \in Events(b, "upload") :
                    b.log[u].path = <<"emoticons", b.series, b.log[u].index>>
            /\ \A n \in 1..Len(b.results) : b.results[n].index = n - 1

\* the only record of a batch belongs to its second item, the first having
\* failed
C26_WitnessAfterFailure ==
    \E p \in Batches :
        LET b == batch[p]
        IN  /\ Answered200(b)
            /\ Len(b.results) = 2
            /\ ~b.results[1].success
            /\ Len(emoticon_scenes) = 1
            /\ emoticon_scenes[1].scene_number = 1
            /\ emoticon_scenes[1].image_url = <<"public", "emoticons", b.savedSeriesId, 1>>

\* two uploads returned in reverse order and the records keep the request
\* indices of their items
C26_Witness ==
    \E p \in Batches :
        LET b == batch[p]
        IN  /\ Len(b.sceneRecords) = 2
            /\ b.sceneRecords[1].scene_number = 1
            /\ b.sceneRecords[2].scene_number = 0

\* C27: once a translation is written to the cache its value never changes,
\* also when concurrent batches translate the same text.
C27_CacheEntryImmutable ==
    [][\A t \in DOMAIN translationCache :
            /\ t \in DOMAIN translationCache'
            /\ translationCache'[t] = translationCache[t]]_vars

\* the batch wrote to the database or to the storage bucket on behalf of
\* the user id its request names
WroteForUser(b) ==
    \/ \E row \in emoticon_series : row.id = b.savedSeriesId /\ row.user_id = b.req.userId
    \/ \E f \in DOMAIN storage : f[2] = b.series

\* C28: the endpoint is protected by the verification of a Supabase Auth
\* token: a request that carries no token is not served, and nothing is
\* synthesized or stored for it.
C28_TokenVerified ==
    \A p \in Batches :
        LET b == batch[p]
        IN  (b.pc # "idle" /\ b.req.authorization = None) =>
                /\ Events(b, "synth") = {}
                /\ ~WroteForUser(b)
                /\ b.pc = "done" => b.resp.status # 200

\* the messages of the errors Step 1 extraction throws
ExtractionErrors ==
    {"Invalid output format: undefined", "Invalid output format: object",
     "Cannot find URL in output object", "Invalid URL returned from Replicate"}

\* C29: the extraction of the reference from a response of the synthesis
\* service accepts a list (its first element), a bare string, or an object
\* with a url field, an output field or a first element; a response that
\* carries no reference in any of these shapes, at Stage 1 or at Stage 2,
\* makes the item a failure with the error of the extraction; a Stage 1
\* reference is accepted only if it starts with 'http'.
C29_Extraction ==
    \A p \in Batches :
        LET b == batch[p]
            out == b.output
            answers == Events(b, "synthAnswer")
        IN  /\ out # NoOutput =>
                /\ out.shape \in {"list", "string", "object"}
                /\ out.shape = "list" => Len(out.elems) > 0 /\ b.imageUrl = out.elems[1]
                /\ out.shape = "string" => b.imageUrl = out.val
                /\ out.shape = "object" =>
                        b.imageUrl = (IF out.url # Null THEN out.url
                                      ELSE IF out.output # Null THEN out.output
                                      ELSE out.first)
                /\ b.imageUrl # Null
                /\ b.imageUrl[1] = "http"
                /\ b.pc \in {"waitStep2", "normalizeWait", "arrayBufferWait", "sharpWait"}
            /\ \A a \in answers :
                LET i == b.log[a].item
                IN  /\ (b.log[a].stage = 1 /\ b.log[a].kind \in {"no reference", "not http"}) =>
                            /\ Len(b.results) > i
                            /\ ~b.results[i + 1].success
                            /\ b.results[i + 1].error \in ExtractionErrors
                            /\ b.results[i + 1].generatedUrl = Null
                            /\ SynthCalls(b, i, 2) = {}
                    /\ (b.log[a].stage = 1 /\ b.log[a].kind = "not http") =>
                            b.results[i + 1].error = "Invalid URL returned from Replicate"
                    /\ (b.log[a].stage = 2 /\ b.log[a].kind = "no reference"
                            /\ Len(b.results) > i) =>
                            /\ ~b.results[i + 1].success
                            /\ b.results[i + 1].error \in ExtractionErrors
                            /\ b.results[i + 1].generatedUrl = Null
                    /\ (b.log[a].stage = 1 /\ b.log[a].kind = "http" /\ Len(b.results) > i
                            /\ ~b.results[i + 1].success) =>
                            b.results[i + 1].error \notin ExtractionErrors

\* C30: in text-to-image mode a Stage 2 call is issued only after Stage 1
\* of the same item returned an http reference; it carries the prompt sent
\* in Stage 1 and that reference as its source image, Stage 1 having had
\* none; an item whose Stage 1 failed gets no Stage 2 call.
C30_Stage2AfterValidStage1 ==
    \A p \in Batches :
        LET b == batch[p]
            calls == Events(b, "synth")
            answers == Events(b, "synthAnswer")
        IN  /\ \A c2 \in calls :
                b.log[c2].stage = 2 =>
                    /\ IsText2Img(b.req)
                    /\ \E c1 \in calls, a1 \in answers :
                        /\ c1 < a1 /\ a1 < c2
                        /\ b.log[c1].item = b.log[c2].item /\ b.log[c1].stage = 1
                        /\ b.log[a1].item = b.log[c2].item /\ b.log[a1].stage = 1
                        /\ b.log[a1].kind = "http"
                        /\ b.log[c1].image = None
                        /\ b.log[c2].prompt = b.log[c1].prompt
                        /\ b.log[c2].image = b.log[a1].ref
                    /\ Cardinality({c \in calls : b.log[c].stage = 2
                                                  /\ b.log[c].item = b.log[c2].item}) = 1
            /\ \A a1 \in answers :
                (b.log[a1].stage = 1 /\ b.log[a1].kind # "http") =>
                    \A c2 \in calls : ~(b.log[c2].stage = 2 /\ b.log[c2].item = b.log[a1].item)

\* the first item failed at Stage 1 and got no Stage 2 call; the second got
\* its Stage 2 call with the theme in the prompt of both stages
C30_Witness ==
    \E p \in Batches :
        LET b == batch[p]
        IN  /\ b.pc = "step2Wait"
            /\ b.i = 1
            /\ SynthCalls(b, 0, 2) = {}
            /\ \E a \in SynthAnswersOf(b, 0, 1) : b.log[a].kind # "http"
            /\ LastEv(b).ev = "synth" /\ LastEv(b).stage = 2
            /\ HasThemeClause(LastEv(b).prompt)
            /\ LastEv(b).image = b.imageUrl

\* an image-to-image batch made one Stage 1 call for each item it has
\* recorded, at most one for the item in progress, and no Stage 2 call
OneCallPerImage(b) ==
    LET calls == Events(b, "synth")
    IN  /\ \A c \in calls : b.log[c].stage = 1
        /\ \A i \in 0..(NumItems(b.req) - 1) :
                LET n == Cardinality({c \in calls : b.log[c].item = i})
                IN  /\ n <= 1
                    /\ Len(b.results) > i => n = 1

\* C31 as stated: in image-to-image mode exactly one synthesis call is made
\* per item, with the background-normalized input image as source, and no
\* Stage 2 call is ever issued.
C31_Img2ImgSinglePass ==
    \A p \in Batches :
        LET b == batch[p]
        IN  (Accepted(b) /\ b.req.mode = "img2img") =>
                /\ OneCallPerImage(b)
                /\ \A c \in Events(b, "synth") :
                        b.log[c].image = Flatten(b.req.images[b.log[c].item + 1])

\* C31 amended: in image-to-image mode exactly one synthesis call is made
\* per item and no Stage 2 call is ever issued; the source of the call is
\* the background-normalized input image, or the input image as it came
\* when its normalization failed.
C31_Img2ImgSinglePassOrInput ==
    \A p \in Batches :
        LET b == batch[p]
            converts == Events(b, "convert")
        IN  (Accepted(b) /\ b.req.mode = "img2img") =>
                /\ OneCallPerImage(b)
                /\ \A c \in Events(b, "synth") :
                        \E v \in converts :
                            /\ v < c
                            /\ b.log[v].item = b.log[c].item
                            /\ b.log[c].image =
                                    (IF b.log[v].ok
                                     THEN Flatten(b.req.images[b.log[c].item + 1])
                                     ELSE b.req.images[b.log[c].item + 1])

\* an image-to-image batch was answered after two items: the normalization
\* of the first failed and its call took the input image, the second call
\* took the normalized image
C31_Witness ==
    \E p \in Batches :
        LET b == batch[p]
        IN  /\ Answered200(b)
            /\ b.req.mode = "img2img"
            /\ Len(b.results) = 2
            /\ \E c \in SynthCalls(b, 0, 1) : b.log[c].image = "img1"
            /\ \E c \in SynthCalls(b, 1, 1) : b.log[c].image = "img1 on white"
            /\ SynthCalls(b, 0, 2) = {} /\ SynthCalls(b, 1, 2) = {}

\* every step but the arrival of the request: an external call returns or
\* fails, a timer fires, the handler resumes
Resume ==
    \/ ResolveReturn(1)
    \/ ConvertReturn(1)
    \/ TranslateToEnglishCall(1)
    \/ TranslateToEnglishReturn(1)
    \/ AfterTranslate(1)
    \/ Step1Return(1)
    \/ Step2Call(1)
    \/ Step2Return(1)
    \/ NormalizeFetchReturn(1)
    \/ NormalizeBufferReturn(1)
    \/ NormalizeReturn(1)
    \/ NextItem(1)
    \/ ClassifyReturn(1)
    \/ SeriesInsertReturn(1)
    \/ UploadReturn(1)
    \/ UploadsDone(1)
    \/ ScenesInsertReturn(1)

\* the requests of the batches whose termination is checked: every mode,
\* with and without persistence, the default style, one text for every
\* prompt, a theme in batch mode only, and no prompt with a list of
\* MaxItems images
LiveRequests ==
    {r \in Requests :
        /\ r.style = None
        /\ r.theme # None => r.mode = "batch"
        /\ FullLength(r.images) => r.prompts = Null
        /\ r.prompts # Null => \A k \in 1..Len(r.prompts) : r.prompts[k] = "ko1"}

ReceiveLive(p) == ReceiveFrom(p, LiveRequests)

NextLive == ReceiveLive(1) \/ Resume

\* the batch running under the assumption that every external call
\* eventually returns or fails and every timer fires
SpecLive == Init /\ [][NextLive]_vars /\ WF_vars(Resume)

\* the calls and waits a batch of N items may make at most: two synthesis
\* calls, two translations, one conversion, one image fetch and two waits
\* per item, and one classification, one aggregate insert, N uploads and one
\* bulk insert for the batch
BoundedWork(b) ==
    LET n == NumItems(b.req)
    IN  /\ Cardinality(Events(b, "synth")) <= 2 * n
        /\ Cardinality(Events(b, "translate")) <= 2 * n
        /\ Cardinality(Events(b, "translateHit")) <= 2 * n
        /\ Cardinality(Events(b, "convert")) <= n
        /\ Cardinality(Events(b, "normalize")) <= n
        /\ Cardinality(Events(b, "wait")) <= 2 * n - 1
        /\ Cardinality(Events(b, "classify")) <= 1
        /\ Cardinality(Events(b, "seriesInsert")) <= 1
        /\ Cardinality(Events(b, "upload")) <= n
        /\ Cardinality(Events(b, "scenesInsert")) <= 1
        /\ Len(b.log) <= 11 * n + 6

\* C33: if every external call eventually returns or fails, every accepted
\* batch eventually produces its response, after a bounded number of calls
\* and waits.
C33_BatchTerminates ==
    /\ [](\A p \in Batches : Accepted(batch[p]) => BoundedWork(batch[p]))
    /\ (batch[1].pc = "resolveWait") ~> (batch[1].pc = "done")

\* a batch of two items was answered after it used every call and wait a
\* two-stage batch has
C33_Witness ==
    \E p \in Batches :
        LET b == batch[p]
        IN  /\ Answered200(b)
            /\ NumItems(b.req) = 2
            /\ Cardinality(Events(b, "synth")) = 4
            /\ Cardinality(Events(b, "wait")) = 3
            /\ \E n \in 1..Len(b.results) : ~b.results[n].success


\* ------------------------------------------------------------------ C34
\* C34: every tag the classification step hands to the aggregate record is
\* one of the eight tags of the taxonomy, whatever the language model
\* answered (an error, text with no array, an array that is not JSON, an
\* array with tags outside the taxonomy): the stored list and the inserted
\* row hold taxonomy tags only.
Classified(b) == Events(b, "classifyAnswer") # {}

TagsOf(list) == {list[k] : k \in 1..Len(list)}

C34_TagsInTaxonomy ==
    /\ \A p \in Batches :
        Classified(batch[p]) => TagsOf(batch[p].categories) \subseteq VALID_CATEGORIES
    /\ \A s \in emoticon_series : TagsOf(s.categories) \subseteq VALID_CATEGORIES

\* the model answered ["kawaii","cute"]; the row was inserted with ["cute"]
C34_Witness ==
    \E p \in Batches :
        LET b == batch[p]
        IN  /\ \E k \in Events(b, "classifyAnswer") :
                b.log[k].reply = ReplyArray(<<"kawaii", "cute">>)
            /\ b.categories = <<"cute">>
            /\ \E s \in emoticon_series : s.categories = <<"cute">>


\* ------------------------------------------------------------------ C36
\* C36: in every BatchResult the counts agree with the list it carries:
\* successCount is the number of results marked successful, failedCount the
\* number marked failed, and successCount + failedCount = total = N, the
\* number of items of the request.
CountOf(list, flag) == Cardinality({n \in 1..Len(list) : list[n].success = flag})

C36_CountsAddUp ==
    \A p \in Batches :
        LET b == batch[p]
            r == b.resp
        IN  Answered200(b) =>
                /\ r.successCount = CountOf(r.results, TRUE)
                /\ r.failedCount = CountOf(r.results, FALSE)
                /\ r.successCount + r.failedCount = r.total
                /\ r.total = NumItems(b.req)
                /\ r.total = Len(r.results)

\* a batch of two items answered with one success and one failure
C36_Witness ==
    \E p \in Batches :
        LET b == batch[p]
        IN  /\ Answered200(b)
            /\ b.resp.total = 2
            /\ b.resp.successCount = 1
            /\ b.resp.failedCount = 1
            /\ b.resp.results[1].success
            /\ ~b.resp.results[2].success


\* ------------------------------------------------------------------ C37
\* C37: the num_scenes of an aggregate record is the number of successful
\* items of the batch that created it (at least one), and it is never less
\* than the number of child records stored for that aggregate: uploads that
\* fail and a failed bulk insert leave fewer children, never more.
ChildrenOf(id) == {k \in 1..Len(emoticon_scenes) : emoticon_scenes[k].series_id = id}

C37_NumScenesIsSuccessCount ==
    \A s \in emoticon_series :
        \E p \in Batches :
            LET b == batch[p]
            IN  /\ b.series = s.id
                /\ s.num_scenes = CountOf(b.results, TRUE)
                /\ s.num_scenes >= 1
                /\ s.num_scenes >= Len(b.sceneRecords)
                /\ s.num_scenes >= Cardinality(ChildrenOf(s.id))

\* an aggregate with num_scenes 2 whose bulk insert stored one child record
C37_Witness ==
    \E s \in emoticon_series :
        /\ s.num_scenes = 2
        /\ Cardinality(ChildrenOf(s.id)) = 1
        /\ \E p \in Batches : batch[p].series = s.id /\ Answered200(batch[p])


\* ------------------------------------------------------------------ C32
\* preview requests long enough to fill a minute of the quota
MaxQuotaItems == 7

QuotaRequests ==
    {MkRequest("m1", "preview", [k \in 1..n |-> "ko1"], Null, None,
               [style |-> None, monochromeOnly |-> TRUE],
               [saveToDb |-> FALSE, userId |-> None, character |-> None], None) :
        n \in 1..MaxQuotaItems}

ReceiveQuota(p) == ReceiveFrom(p, QuotaRequests)

\* one batch, a preview request of up to MaxQuotaItems prompts
NextQuota ==
    \/ ReceiveQuota(1)
    \/ ResolveReturn(1)
    \/ TranslateToEnglishCall(1)
    \/ TranslateToEnglishReturn(1)
    \/ AfterTranslate(1)
    \/ Step1Return(1)
    \/ NormalizeFetchReturn(1)
    \/ NormalizeBufferReturn(1)
    \/ NormalizeReturn(1)
    \/ NextItem(1)

SpecQuota == Init /\ [][NextQuota]_vars

\* "rate limit: 6/min"
QUOTA == 6
MINUTE == 60000

\* the earliest time, in ms after the first event, at which the k-th event of
\* a batch's record happens: the waits before it, the calls returning at once
RECURSIVE WaitedBefore(_, _)
WaitedBefore(log, k) ==
    IF k <= 1 THEN 0
    ELSE WaitedBefore(log, k - 1) +
            (IF log[k - 1].ev = "wait" THEN log[k - 1].ms ELSE 0)

\* the synthesis calls of b in the minute that starts with its call k
CallsInMinuteFrom(b, k) ==
    {j \in Events(b, "synth") :
        /\ j >= k
        /\ WaitedBefore(b.log, j) - WaitedBefore(b.log, k) < MINUTE}

\* C32: no 60-second window holds more than 6 synthesis calls of one batch,
\* however fast the calls return: with the waits as the only time that
\* passes, the minute that starts with any synthesis call of a batch holds
\* at most 6 of its synthesis calls.
C32_UnderQuota ==
    \A p \in Batches :
        \A k \in Events(batch[p], "synth") :
            Cardinality(CallsInMinuteFrom(batch[p], k)) <= QUOTA


\* ================================================ POST /api/emoticons/save
\* Authorization headers the routes that verify a token receive
SaveAuthHeaders ==
    {None, "", "Bearer token-user1", "Bearer token-user2", "Bearer expired"}

\* authHeader?.replace('Bearer ', '')
TokenOf(authHeader) ==
    IF authHeader = None THEN None
    ELSE IF authHeader = "Bearer token-user1" THEN "token-user1"
    ELSE IF authHeader = "Bearer token-user2" THEN "token-user2"
    ELSE IF authHeader = "Bearer expired" THEN "expired"
    ELSE authHeader

\* supabaseAdmin.auth.getUser(token): the user of a valid session, else none
UserOfToken(token) ==
    IF token = "token-user1" THEN "user1"
    ELSE IF token = "token-user2" THEN "user2"
    ELSE None

\* values of Date.now()
Times == {1, 2}

ExistingSeries == <<"series", 1>>
SeriesIds == {ExistingSeries, <<"series", 9>>}

\* an edited image: the id of a stored child record (its position in the
\* table) or a client-side id, the image as a data URL, a name
ModifiedImage(sceneId, name) ==
    [sceneId |-> sceneId, imageData |-> <<"data:image/png;base64", "img1">>, name |-> name]
ModifiedImages ==
    {ModifiedImage(sceneId, name) : sceneId \in {<<"scene", 1>>, <<"new_scene", 1>>},
                                    name \in {"smile", ""}}

\* bodies and headers of the save requests
SaveRequests ==
    [authorization : SaveAuthHeaders, seriesId : SeriesIds,
     modifiedImages : SeqsUpTo(ModifiedImages, MaxItems)]

\* concurrent save requests: the owner sends one new image for the series
SmallSaveRequests ==
    {[authorization |-> "Bearer token-user1", seriesId |-> ExistingSeries,
      modifiedImages |-> <<ModifiedImage(<<"new_scene", 1>>, "smile")>>]}

\* the datastore as text-to-image generation left it: one aggregate of user1
\* with the child records of the uploads that succeeded, in the order in
\* which the uploads answered
StoredRequest ==
    MkRequest("m1", "preview", <<"ko1", "ko1">>, Null, None,
              [style |-> None, monochromeOnly |-> TRUE],
              [saveToDb |-> TRUE, userId |-> "user1", character |-> "cat"], None)

\* the orders in which uploads of the two items can have succeeded
StoredOrders == {<<>>, <<0>>, <<1>>, <<0, 1>>, <<1, 0>>}

\* sceneRecords after the uploads of the items of `order` succeeded in that order
StoredScenes(order) ==
    [k \in 1..Len(order) |->
        SceneRecord(StoredRequest, ExistingSeries, [index |-> order[k]], order[k])]

\* the objects in the bucket after the uploads of the items of `order`
\* succeeded: each holds the PNG of the image of its item
StoredObjects(order) ==
    [f \in {FileName(ExistingSeries, order[k]) : k \in 1..Len(order)} |->
        Tail(PngOf(HttpRef(f[3], 1)))]

\* the datastore after the generation of StoredRequest, both items
\* successful, with the uploads of `order` succeeded in that order: the
\* aggregate, the child records and the objects they point to
StoredDatastore(order) ==
    /\ emoticon_series = {SeriesRow(ExistingSeries, StoredRequest, 2, <<"daily">>)}
    /\ emoticon_scenes = StoredScenes(order)
    /\ storage = StoredObjects(order)

\* a process that has served no request yet, over the datastore an earlier
\* generation left
InitSave ==
    /\ env \in [REPLICATE_API_TOKEN : {TRUE}]
    /\ batch = [p \in Batches |-> IdleBatch]
    /\ translationCache = [t \in {} |-> None]
    /\ langCalls = [t \in Texts |-> 0]
    /\ \E order \in StoredOrders : StoredDatastore(order)
    /\ faults = 0
    /\ RoutesIdle

\* what the save route leaves alone
notSave == <<env, batch, translationCache, langCalls, emoticon_series,
             gen, train, lora_rows, lora_credits, trainings>>

SaveError(s, status, message) ==
    [s EXCEPT !.pc = "done", !.resp = [status |-> status, success |-> FALSE, error |-> message]]

\* `emoticons/${seriesId}/${sceneId}_${Date.now()}.png`
SaveFileName(seriesId, sceneId, now) == <<"emoticons", seriesId, sceneId, now>>

\* top of the loop over modifiedImages: the upload of the next image, or the
\* response when none is left
SaveBeginItem(s, now) ==
    IF s.k >= Len(s.req.modifiedImages)
    THEN [s EXCEPT !.pc = "done",
                   !.resp = [status |-> 200, success |-> TRUE, results |-> s.results]]
    ELSE [s EXCEPT !.pc = "uploadWait",
                   !.fileName = SaveFileName(s.req.seriesId,
                                             s.req.modifiedImages[s.k + 1].sceneId, now)]

\* entry of POST up to the getUser call
SaveReceiveFrom(q, R) ==
    /\ save[q].pc = "idle"
    /\ \E rq \in R, configured \in BOOLEAN :
        save' = [save EXCEPT ![q] =
            LET s == [save[q] EXCEPT !.req = rq]
            IN  IF ~configured THEN SaveError(s, 500, "Server configuration error")
                ELSE IF ~Truthy(TokenOf(rq.authorization)) THEN SaveError(s, 401, "no token")
                ELSE [s EXCEPT !.pc = "authWait"]]
    /\ UNCHANGED <<notSave, emoticon_scenes, storage, faults>>

SaveReceive(q) == SaveReceiveFrom(q, SaveRequests)

SaveReceiveSmall(q) == SaveReceiveFrom(q, SmallSaveRequests)

\* getUser returns: the body of the request is read
SaveAuthReturn(q) ==
    LET s == save[q]
        authUser == UserOfToken(TokenOf(s.req.authorization))
    IN  /\ s.pc = "authWait"
        /\ \E authError \in BOOLEAN :
            /\ Fault(authError)
            /\ save' = [save EXCEPT ![q] =
                    IF authError \/ authUser = None THEN SaveError(s, 401, "invalid token")
                    ELSE [s EXCEPT !.authUser = authUser, !.pc = "jsonWait"]]
        /\ UNCHANGED <<notSave, emoticon_scenes, storage>>

\* request.json() returns or rejects: the series is looked up, or the outer
\* catch answers
SaveJsonReturn(q) ==
    LET s == save[q]
    IN  /\ s.pc = "jsonWait"
        /\ \E rejected \in BOOLEAN :
            /\ Fault(rejected)
            /\ save' = [save EXCEPT ![q] =
                    IF rejected THEN SaveError(s, 500, "Request failed")
                    ELSE [s EXCEPT !.pc = "seriesWait"]]
        /\ UNCHANGED <<notSave, emoticon_scenes, storage>>

\* the series lookup returns: ownership, then the first upload
SaveSeriesReturn(q) ==
    LET s == save[q]
        found == {r \in emoticon_series : r.id = s.req.seriesId}
    IN  /\ s.pc = "seriesWait"
        /\ \E seriesError \in BOOLEAN, now \in Times :
            /\ Fault(seriesError)
            /\ save' = [save EXCEPT ![q] =
                    IF seriesError \/ found = {} THEN SaveError(s, 404, "series not found")
                    ELSE IF \E r \in found : r.user_id # s.authUser
                    THEN SaveError(s, 403, "not the owner")
                    ELSE SaveBeginItem(s, now)]
        /\ UNCHANGED <<notSave, emoticon_scenes, storage>>

\* const isNewScene = `new_scene_${Date.now()}`
IsNewScene(sceneId, now) == <<"new_scene_", now>>

\* truthiness of a JS string held as its parts
TruthyString(str) == Len(str) > 0

\* SaveUploadReturn with the scene taken as new when its id names no stored record
SaveUploadReturn_NewWhenUnknownId(q) ==
    LET s == save[q]
        item == s.req.modifiedImages[s.k + 1]
    IN  /\ s.pc = "uploadWait"
        /\ \E uploadError \in BOOLEAN, now \in Times :
            /\ Fault(uploadError)
            /\ IF uploadError
               THEN /\ save' = [save EXCEPT ![q] = SaveError(s, 500, "upload failed")]
                    /\ UNCHANGED storage
               ELSE /\ storage' = MapSet(storage, s.fileName, <<item.imageData[2]>>)
                    /\ save' = [save EXCEPT ![q] =
                            [s EXCEPT !.publicUrl = <<"public">> \o s.fileName,
                                      !.pc = IF item.sceneId[1] = "new_scene"
                                             THEN "maxWait" ELSE "updateWait"]]
        /\ UNCHANGED <<notSave, emoticon_scenes>>

\* the upload returns: the public URL, then the branch on isNewScene
SaveUploadReturn(q) ==
    LET s == save[q]
        item == s.req.modifiedImages[s.k + 1]
    IN  /\ s.pc = "uploadWait"
        /\ \E uploadError \in BOOLEAN, now \in Times :
            /\ Fault(uploadError)
            /\ IF uploadError
               THEN /\ save' = [save EXCEPT ![q] = SaveError(s, 500, "upload failed")]
                    /\ UNCHANGED storage
               ELSE /\ storage' = MapSet(storage, s.fileName, <<item.imageData[2]>>)
                    /\ save' = [save EXCEPT ![q] =
                            [s EXCEPT !.publicUrl = <<"public">> \o s.fileName,
                                      !.pc = IF TruthyString(IsNewScene(item.sceneId, now))
                                             THEN "maxWait" ELSE "updateWait"]]
        /\ UNCHANGED <<notSave, emoticon_scenes>>

\* existingScenes?.[0]?.scene_number || 0 over the rows of the series
MaxSceneNumber(seriesId) ==
    LET numbers == {emoticon_scenes[n].scene_number :
                        n \in {m \in 1..Len(emoticon_scenes) :
                                    emoticon_scenes[m].series_id = seriesId}}
    IN  IF numbers = {} THEN 0
        ELSE CHOOSE x \in numbers : \A y \in numbers : y <= x

\* the row of the new scene; "edited emoticon" stands for the Korean default
\* of the prompt column
NewSceneRow(seriesId, newSceneNumber, name, publicUrl, createdAt, updatedAt) ==
    [series_id |-> seriesId, scene_number |-> newSceneNumber, title |-> name,
     prompt |-> IF Truthy(name) THEN name ELSE "edited emoticon",
     image_url |-> publicUrl, created_at |-> createdAt, updated_at |-> updatedAt]

\* the query for the greatest scene_number returns: the insert is issued
SaveMaxReturn(q) ==
    LET s == save[q]
        item == s.req.modifiedImages[s.k + 1]
        newSceneNumber == MaxSceneNumber(s.req.seriesId) + 1
    IN  /\ s.pc = "maxWait"
        /\ \E fetchError \in BOOLEAN, createdAt \in Times, updatedAt \in Times :
            /\ Fault(fetchError)
            /\ fetchError => createdAt = 1 /\ updatedAt = 1
            /\ save' = [save EXCEPT ![q] =
                    IF fetchError THEN SaveError(s, 500, "fetch failed")
                    ELSE [s EXCEPT !.newRow = NewSceneRow(s.req.seriesId, newSceneNumber,
                                                          item.name, s.publicUrl,
                                                          createdAt, updatedAt),
                                   !.pc = "insertWait"]]
        /\ UNCHANGED <<notSave, emoticon_scenes, storage>>

\* .update({ image_url, updated_at }) of one row
UpdatedRow(row, publicUrl, now) ==
    [f \in DOMAIN row \cup {"updated_at"} |->
        IF f = "image_url" THEN publicUrl ELSE IF f = "updated_at" THEN now ELSE row[f]]

\* the id of a stored child record is its position in the table
RowOfSceneId(sceneId) ==
    IF sceneId[1] = "scene" /\ sceneId[2] \in 1..Len(emoticon_scenes) THEN sceneId[2] ELSE 0

\* the insert of the new scene, or the update of the existing one, returns:
\* the result is pushed and the loop goes on
SaveWriteReturn(q) ==
    LET s == save[q]
        item == s.req.modifiedImages[s.k + 1]
        row == RowOfSceneId(item.sceneId)
        action == IF s.pc = "insertWait" THEN "inserted" ELSE "updated"
    IN  /\ s.pc \in {"insertWait", "updateWait"}
        /\ \E writeError \in BOOLEAN, now \in Times :
            /\ Fault(writeError)
            /\ IF writeError \/ (s.pc = "updateWait" /\ row = 0)
               THEN /\ save' = [save EXCEPT ![q] = SaveError(s, 500, "write failed")]
                    /\ UNCHANGED emoticon_scenes
               ELSE /\ emoticon_scenes' =
                            IF s.pc = "insertWait" THEN Append(emoticon_scenes, s.newRow)
                            ELSE [emoticon_scenes EXCEPT
                                        ![row] = UpdatedRow(@, s.publicUrl, now)]
                    /\ save' = [save EXCEPT ![q] =
                            SaveBeginItem([s EXCEPT !.results =
                                                Append(@, [sceneId |-> item.sceneId,
                                                           action |-> action]),
                                                    !.newRow = Null, !.publicUrl = Null,
                                                    !.fileName = Null, !.k = @ + 1], now)]
        /\ UNCHANGED <<notSave, storage>>

\* one save request, any body
NextSave ==
    \/ SaveReceive(1)
    \/ SaveAuthReturn(1)
    \/ SaveJsonReturn(1)
    \/ SaveSeriesReturn(1)
    \/ SaveUploadReturn(1)
    \/ SaveMaxReturn(1)
    \/ SaveWriteReturn(1)

SpecSave == InitSave /\ [][NextSave]_vars

\* save requests of the owner that run at the same time
NextSaveConc ==
    \E q \in Savers :
        \/ SaveReceiveSmall(q)
        \/ SaveAuthReturn(q)
        \/ SaveJsonReturn(q)
        \/ SaveSeriesReturn(q)
        \/ SaveUploadReturn(q)
        \/ SaveMaxReturn(q)
        \/ SaveWriteReturn(q)

SpecSaveConc == InitSave /\ [][NextSaveConc]_vars


\* ------------------------------------------------------------------ C35
\* C35: the save route only inserts: after every upload the branch of the
\* new scene is taken, whatever id the edited image carries, so no request
\* ever waits for an update, every result says 'inserted', a request that
\* is answered with success has one result per image, and no step of the
\* route changes a child record that is already stored.
C35_InsertOnly ==
    /\ [](\A q \in Savers :
            /\ save[q].pc # "updateWait"
            /\ \A n \in 1..Len(save[q].results) : save[q].results[n].action = "inserted"
            /\ (save[q].pc = "done" /\ save[q].resp.status = 200) =>
                    Len(save[q].results) = Len(save[q].req.modifiedImages))
    /\ [][/\ Len(emoticon_scenes') >= Len(emoticon_scenes)
          /\ \A n \in 1..Len(emoticon_scenes) : emoticon_scenes'[n] = emoticon_scenes[n]]_vars

\* an edited image that carries the id of the first stored record was saved:
\* that record is as it was and a new record holds the image
C35_Witness ==
    \E q \in Savers :
        LET s == save[q]
        IN  /\ s.pc = "done"
            /\ s.resp.status = 200
            /\ Len(s.results) = 1
            /\ s.results[1].sceneId = <<"scene", 1>>
            /\ Len(emoticon_scenes) = 2
            /\ emoticon_scenes[1] = StoredScenes(<<0>>)[1]
            /\ emoticon_scenes[2].image_url[4] = <<"scene", 1>>

\* ------------------------------------------------------------------ C38
\* C38: the scene numbers of the child records of one series are unique,
\* also when two save requests for the series run at the same time.
C38_SceneNumbersUnique ==
    \A m, n \in 1..Len(emoticon_scenes) :
        (m # n /\ emoticon_scenes[m].series_id = emoticon_scenes[n].series_id)
            => emoticon_scenes[m].scene_number # emoticon_scenes[n].scene_number


\* ===================================== POST /api/emoticons/generate-scenes
SCENE_COUNT == 5

\* the greatest number of lines of a reply of the language service
MaxLines == 6

\* a line of text is the sequence of its characters: a digit, a period, a
\* blank and a letter stand for the character classes the parsing tells apart
ReplyLines ==
    {<<" ">>, <<"a">>, <<"1", ".", " ", "a">>, <<"1", ".">>, <<" ", "1", "a", " ">>}

\* a reply is the sequence of its lines, joined by newlines
Replies == {t \in SeqsUpTo(ReplyLines, MaxLines) : Len(t) >= 1}

IsDigit(c) == c \in {"0", "1", "2", "3", "4", "5", "6", "7", "8", "9"}
IsSpace(c) == c = " "

\* String.prototype.trimStart and trimEnd of one line
RECURSIVE TrimStart(_)
TrimStart(line) ==
    IF line # <<>> /\ IsSpace(Head(line)) THEN TrimStart(Tail(line)) ELSE line

RECURSIVE TrimEnd(_)
TrimEnd(line) ==
    IF line # <<>> /\ IsSpace(line[Len(line)])
    THEN TrimEnd(SubSeq(line, 1, Len(line) - 1)) ELSE line

\* String.prototype.trim of one line
Trim(line) == TrimEnd(TrimStart(line))

RECURSIVE DropDigits(_)
DropDigits(line) ==
    IF line # <<>> /\ IsDigit(Head(line)) THEN DropDigits(Tail(line)) ELSE line

\* line.replace(/^\d+\.?\s*/, ''): one digit or more, then a period if there
\* is one, then the blanks
StripNumber(line) ==
    IF line # <<>> /\ IsDigit(Head(line))
    THEN LET rest == DropDigits(line)
         IN  TrimStart(IF rest # <<>> /\ Head(rest) = "." THEN Tail(rest) ELSE rest)
    ELSE line

\* text.trim().split('\n'): the blank lines at both ends go, the first line
\* loses its leading blanks and the last its trailing blanks; a text of
\* blanks only is one empty line
RECURSIVE TrimSplit(_)
TrimSplit(text) ==
    IF Len(text) = 0 THEN << <<>> >>
    ELSE IF Trim(Head(text)) = <<>> THEN TrimSplit(Tail(text))
    ELSE IF Trim(text[Len(text)]) = <<>> THEN TrimSplit(SubSeq(text, 1, Len(text) - 1))
    ELSE [text EXCEPT ![1] = TrimStart(@), ![Len(text)] = TrimEnd(@)]

NonEmptyLine(line) == Len(line) > 0

\* the lines of the reply as scenes, before the count is tested
ParsedScenes(text) ==
    LET lines == TrimSplit(text)
        mapped == [n \in 1..Len(lines) |-> Trim(StripNumber(lines[n]))]
        scenes == Filter(mapped, NonEmptyLine)
    IN  SubSeq(scenes, 1, Min(Len(scenes), SCENE_COUNT))

\* breakThemeIntoScenes with fewer scenes than SCENE_COUNT returned as they are
BreakThemeIntoScenes_ReturnsFewer(text) ==
    [thrown |-> FALSE, scenes |-> ParsedScenes(text)]

\* body of breakThemeIntoScenes after the call
BreakThemeIntoScenes(text) ==
    LET scenes == ParsedScenes(text)
    IN  IF Len(scenes) < SCENE_COUNT THEN [thrown |-> TRUE, scenes |-> <<>>]
        ELSE [thrown |-> FALSE, scenes |-> scenes]

GenRequests == [character : {None, "", "cat"}, theme : {None, "ko2"}]

GenError(g, status, message) ==
    [g EXCEPT !.pc = "done", !.resp = [status |-> status, error |-> message]]

\* what the generate-scenes route leaves alone
notGen == <<env, batch, translationCache, langCalls, emoticon_series, emoticon_scenes,
            storage, save, train, lora_rows, lora_credits, trainings>>

\* entry of POST up to the generateContent call
GenReceive ==
    /\ gen.pc = "idle"
    /\ \E rq \in GenRequests, GEMINI_API_KEY \in BOOLEAN :
        gen' = LET g == [gen EXCEPT !.req = rq]
               IN  IF ~Truthy(rq.character) \/ ~Truthy(rq.theme)
                   THEN GenError(g, 400, "Missing required fields: character, theme")
                   ELSE IF ~GEMINI_API_KEY
                   THEN GenError(g, 500, "GEMINI_API_KEY not configured")
                   ELSE [g EXCEPT !.pc = "replyWait"]
    /\ UNCHANGED <<notGen, faults>>

\* generateContent returns or fails: the scenes are parsed and answered
GenReturn ==
    /\ gen.pc = "replyWait"
    /\ \/ /\ Fault(TRUE)
          /\ gen' = GenError(gen, 500, "Failed to generate scenes")
       \/ /\ Fault(FALSE)
          /\ \E text \in Replies :
                gen' = LET g == [gen EXCEPT !.reply = text]
                           out == BreakThemeIntoScenes(text)
                       IN  IF out.thrown THEN GenError(g, 500, "Only generated")
                           ELSE [g EXCEPT !.pc = "done",
                                          !.resp = [status |-> 200, success |-> TRUE,
                                                    scenes |-> out.scenes,
                                                    character |-> g.req.character,
                                                    theme |-> g.req.theme]]
    /\ UNCHANGED notGen

NextScenes == GenReceive \/ GenReturn

SpecScenes == Init /\ [][NextScenes]_vars

\* ------------------------------------------------------------------ C40
\* the lines of a reply that leave a scene: those with a character that is
\* not a blank after the number at their start
SceneLines(text) ==
    {n \in 1..Len(TrimSplit(text)) : Trim(StripNumber(TrimSplit(text)[n])) # <<>>}

\* C40: a successful response of generate-scenes holds exactly SCENE_COUNT
\* scenes, none of them empty or with blanks at its ends; a reply with fewer
\* than SCENE_COUNT lines that leave a scene is answered with the error 500
\* and no scenes, and one with SCENE_COUNT or more is answered with success.
C40_ExactlySceneCount ==
    (gen.pc = "done" /\ gen.reply # <<>>) =>
        IF Cardinality(SceneLines(gen.reply)) < SCENE_COUNT
        THEN gen.resp.status = 500 /\ "scenes" \notin DOMAIN gen.resp
        ELSE /\ gen.resp.status = 200
             /\ Len(gen.resp.scenes) = SCENE_COUNT
             /\ \A n \in 1..SCENE_COUNT :
                    LET scene == gen.resp.scenes[n]
                    IN  /\ Len(scene) > 0
                        /\ ~IsSpace(scene[1])
                        /\ ~IsSpace(scene[Len(scene)])

\* a reply of six numbered lines was answered with five scenes
C40_Witness ==
    /\ gen.pc = "done"
    /\ gen.resp.status = 200
    /\ gen.reply = [n \in 1..6 |-> <<"1", ".", " ", "a">>]
    /\ gen.resp.scenes = [n \in 1..5 |-> <<"a">>]


\* ====================================================== POST /api/lora/train
\* LORA_TRAINING_CONFIG
minImages == 10
maxImages == 30

\* the images of a request: absent, or an array of so many data URLs
ImageArrays ==
    {[isArray |-> FALSE, length |-> 0]} \cup
    {[isArray |-> TRUE, length |-> n] : n \in {minImages - 1, minImages, maxImages + 1}}

\* headers and bodies of the train requests, with the environment of the
\* deployment that receives them: the variables the route tests and those
\* trainLoRA tests
TrainRequests ==
    [authorization : SaveAuthHeaders, name : {None, "style"}, images : ImageArrays,
     userId : {None, "user1", "user2"}, routeEnv : BOOLEAN, replicateEnv : BOOLEAN]

\* what the train route leaves alone
notTrain == <<env, batch, translationCache, langCalls, emoticon_series, emoticon_scenes,
              save, gen>>

TrainError(t, status, message) ==
    [t EXCEPT !.pc = "done", !.resp = [status |-> status, error |-> message]]

\* `lora-training/${userId}/${loraModel.id}/training_data.zip`
ZipFileName(userId, id) == <<"lora-training", userId, id, "training_data.zip">>

MapRemove(f, key) == [x \in DOMAIN f \ {key} |-> f[x]]

\* the catch around the start of the training: the model record is deleted
TrainCatch(t) == [t EXCEPT !.pc = "rollbackDeleteWait"]

\* entry of POST up to the getUser call
TrainReceive ==
    /\ train.pc = "idle"
    /\ \E rq \in TrainRequests :
        train' = LET t == [train EXCEPT !.req = rq]
                 IN  IF ~rq.routeEnv THEN TrainError(t, 500, "server configuration")
                     ELSE IF ~Truthy(TokenOf(rq.authorization))
                     THEN TrainError(t, 401, "no token")
                     ELSE [t EXCEPT !.pc = "authWait"]
    /\ UNCHANGED <<notTrain, storage, faults, lora_rows, lora_credits, trainings>>

\* getUser returns: the body of the request is read
TrainAuthReturn ==
    LET t == train
        authUser == UserOfToken(TokenOf(t.req.authorization))
    IN  /\ t.pc = "authWait"
        /\ \E authError \in BOOLEAN :
            /\ Fault(authError)
            /\ train' = IF authError \/ authUser = None THEN TrainError(t, 401, "invalid token")
                        ELSE [t EXCEPT !.pc = "jsonWait"]
        /\ UNCHANGED <<notTrain, storage, lora_rows, lora_credits, trainings>>

\* request.json() returns or rejects: the body is validated and the credits
\* are looked up, or the outer catch answers
TrainJsonReturn ==
    LET t == train
        rq == t.req
        authUser == UserOfToken(TokenOf(rq.authorization))
    IN  /\ t.pc = "jsonWait"
        /\ \E rejected \in BOOLEAN :
            /\ Fault(rejected)
            /\ train' =
                IF rejected THEN TrainError(t, 500, "server error")
                ELSE IF rq.userId # authUser THEN TrainError(t, 403, "forbidden")
                ELSE IF ~Truthy(rq.name) \/ ~rq.images.isArray \/ ~Truthy(rq.userId)
                THEN TrainError(t, 400, "name, images and user id are required")
                ELSE IF rq.images.length < minImages THEN TrainError(t, 400, "too few images")
                ELSE IF rq.images.length > maxImages THEN TrainError(t, 400, "too many images")
                ELSE [t EXCEPT !.pc = "checkCreditsWait"]
        /\ UNCHANGED <<notTrain, storage, lora_rows, lora_credits, trainings>>

\* checkCredits(userId, 'lora_credits'): is a credit left
CheckCredits(userId) == [hasEnough |-> lora_credits[userId] > 0, current |-> lora_credits[userId]]

\* useCredit(userId, 'lora_credits'): one credit less
UseCredit(userId) == [lora_credits EXCEPT ![userId] = @ - 1]

\* checkCredits returns: the model record is inserted
TrainCheckCreditsReturn ==
    LET t == train
    IN  /\ t.pc = "checkCreditsWait"
        /\ \E thrown \in BOOLEAN :
            /\ Fault(thrown)
            /\ train' =
                IF thrown THEN TrainError(t, 500, "server error")
                ELSE IF ~CheckCredits(t.req.userId).hasEnough
                THEN TrainError(t, 402, "not enough credits")
                ELSE [t EXCEPT !.pc = "insertWait"]
        /\ UNCHANGED <<notTrain, storage, lora_rows, lora_credits, trainings>>

\* the row inserted into lora_models
LoraRow(id, rq, now) ==
    [id |-> id, user_id |-> rq.userId, name |-> rq.name, trigger_word |-> <<"STYLE_", now>>,
     status |-> "pending", training_images_count |-> rq.images.length,
     replicate_training_id |-> None]

\* the insert returns: the images are added to the ZIP, which is generated
TrainInsertReturn ==
    LET t == train
        id == <<"lora", Cardinality(lora_rows) + 1>>
    IN  /\ t.pc = "insertWait"
        /\ \E insertError \in BOOLEAN, now \in Times :
            /\ Fault(insertError)
            /\ IF insertError
               THEN /\ train' = TrainError(t, 500, "model creation failed")
                    /\ UNCHANGED lora_rows
               ELSE /\ lora_rows' = lora_rows \cup {LoraRow(id, t.req, now)}
                    /\ train' = [t EXCEPT !.loraModel = id, !.pc = "zipWait"]
        /\ UNCHANGED <<notTrain, storage, lora_credits, trainings>>

\* zip.generateAsync returns or rejects: the ZIP is uploaded, or the outer
\* catch answers and the record stays as it was inserted
TrainZipReturn ==
    LET t == train
    IN  /\ t.pc = "zipWait"
        /\ \E rejected \in BOOLEAN :
            /\ Fault(rejected)
            /\ train' = IF rejected THEN TrainError(t, 500, "server error")
                        ELSE [t EXCEPT !.zipFileName = ZipFileName(t.req.userId, t.loraModel),
                                       !.pc = "uploadWait"]
        /\ UNCHANGED <<notTrain, storage, lora_rows, lora_credits, trainings>>

\* the upload of the ZIP returns: on an error the model record is deleted,
\* else trainLoRA starts and creates the destination model
TrainUploadReturn ==
    LET t == train
    IN  /\ t.pc = "uploadWait"
        /\ \E uploadError \in BOOLEAN :
            /\ Fault(uploadError)
            /\ IF uploadError
               THEN /\ train' = [t EXCEPT !.pc = "uploadFailedDeleteWait"]
                    /\ UNCHANGED storage
               ELSE /\ storage' = MapSet(storage, t.zipFileName, <<"zip", t.req.images.length>>)
                    /\ train' = IF ~t.req.replicateEnv THEN TrainCatch(t)
                                ELSE [t EXCEPT !.pc = "createModelWait"]
        /\ UNCHANGED <<notTrain, lora_rows, lora_credits, trainings>>

\* answers of POST /v1/models: a response that is ok or not, or no response
CreateModelAnswers == {"ok", "not ok", "rejected"}

\* the creation of the destination model returns: the training is posted,
\* or the body of the error is read
TrainCreateModelReturn ==
    LET t == train
    IN  /\ t.pc = "createModelWait"
        /\ \E answer \in CreateModelAnswers :
            /\ Fault(answer = "rejected")
            /\ train' = IF answer = "rejected" THEN TrainCatch(t)
                        ELSE IF answer = "not ok" THEN [t EXCEPT !.pc = "createModelErrorWait"]
                        ELSE [t EXCEPT !.pc = "trainingWait"]
        /\ UNCHANGED <<notTrain, storage, lora_rows, lora_credits, trainings>>

\* createModelRes.json() of an answer that is not ok returns or rejects: a
\* model that already exists is passed over, any other error is thrown
TrainCreateModelErrorReturn ==
    LET t == train
    IN  /\ t.pc = "createModelErrorWait"
        /\ \E detail \in {"already exists", "refused", "rejected"} :
            /\ Fault(detail # "already exists")
            /\ train' = IF detail = "already exists" THEN [t EXCEPT !.pc = "trainingWait"]
                        ELSE TrainCatch(t)
        /\ UNCHANGED <<notTrain, storage, lora_rows, lora_credits, trainings>>

\* the training job the external service runs
TrainingJob(t) ==
    [id |-> <<"training", Cardinality(trainings) + 1>>,
     destination |-> <<"owner", "style", t.loraModel>>,
     input_images |-> <<"public">> \o t.zipFileName]

\* POST .../trainings returns: with an answer that is ok the service has
\* started the job, and the body of the answer is read; the body of an
\* answer that is not ok is read too
TrainTrainingReturn ==
    LET t == train
    IN  /\ t.pc = "trainingWait"
        /\ \E answer \in {"ok", "not ok", "rejected"} :
            /\ Fault(answer # "ok")
            /\ IF answer = "ok"
               THEN /\ trainings' = trainings \cup {TrainingJob(t)}
                    /\ train' = [t EXCEPT !.training = TrainingJob(t).id, !.pc = "bodyWait"]
               ELSE /\ UNCHANGED trainings
                    /\ train' = IF answer = "not ok" THEN [t EXCEPT !.pc = "trainingErrorWait"]
                                ELSE TrainCatch(t)
        /\ UNCHANGED <<notTrain, storage, lora_rows, lora_credits>>

\* trainingRes.json() of an answer that is not ok returns or rejects: the
\* error is thrown either way
TrainTrainingErrorReturn ==
    LET t == train
    IN  /\ t.pc = "trainingErrorWait"
        /\ train' = TrainCatch(t)
        /\ UNCHANGED <<notTrain, storage, faults, lora_rows, lora_credits, trainings>>

\* trainingRes.json() returns or rejects: the record is updated
TrainBodyReturn ==
    LET t == train
    IN  /\ t.pc = "bodyWait"
        /\ \E rejected \in BOOLEAN :
            /\ Fault(rejected)
            /\ train' = IF rejected THEN TrainCatch(t) ELSE [t EXCEPT !.pc = "updateWait"]
        /\ UNCHANGED <<notTrain, storage, lora_rows, lora_credits, trainings>>

\* the update of the record returns, its error not looked at: useCredit
TrainUpdateReturn ==
    LET t == train
    IN  /\ t.pc = "updateWait"
        /\ \E updateError \in BOOLEAN :
            /\ Fault(updateError)
            /\ lora_rows' =
                IF updateError THEN lora_rows
                ELSE {IF r.id = t.loraModel
                      THEN [r EXCEPT !.status = "training",
                                     !.replicate_training_id = t.training]
                      ELSE r : r \in lora_rows}
            /\ train' = [t EXCEPT !.pc = "useCreditWait"]
        /\ UNCHANGED <<notTrain, storage, lora_credits, trainings>>

\* useCredit returns or throws: the request is answered
TrainUseCreditReturn ==
    LET t == train
    IN  /\ t.pc = "useCreditWait"
        /\ \E thrown \in BOOLEAN :
            /\ Fault(thrown)
            /\ IF thrown
               THEN /\ train' = TrainCatch(t)
                    /\ UNCHANGED lora_credits
               ELSE /\ lora_credits' = UseCredit(t.req.userId)
                    /\ train' = [t EXCEPT !.pc = "done",
                                          !.resp = [status |-> 200, success |-> TRUE,
                                                    modelId |-> t.loraModel,
                                                    trainingId |-> t.training,
                                                    trainingStatus |-> "training"]]
        /\ UNCHANGED <<notTrain, storage, lora_rows, trainings>>

\* a delete of the model record returns, its error not looked at: after a
\* failed upload the request is answered, in the catch the ZIP is removed
TrainDeleteReturn ==
    LET t == train
    IN  /\ t.pc \in {"uploadFailedDeleteWait", "rollbackDeleteWait"}
        /\ \E deleteError \in BOOLEAN :
            /\ Fault(deleteError)
            /\ lora_rows' = IF deleteError THEN lora_rows
                            ELSE {r \in lora_rows : r.id # t.loraModel}
            /\ train' = IF t.pc = "uploadFailedDeleteWait"
                        THEN TrainError(t, 500, "ZIP upload failed")
                        ELSE [t EXCEPT !.pc = "rollbackRemoveWait"]
        /\ UNCHANGED <<notTrain, storage, lora_credits, trainings>>

\* the removal of the ZIP returns, its error not looked at: answered
TrainRemoveReturn ==
    LET t == train
    IN  /\ t.pc = "rollbackRemoveWait"
        /\ \E removeError \in BOOLEAN :
            /\ Fault(removeError)
            /\ storage' = IF removeError THEN storage ELSE MapRemove(storage, t.zipFileName)
            /\ train' = TrainError(t, 500, "training start failed")
        /\ UNCHANGED <<notTrain, lora_rows, lora_credits, trainings>>

NextTrain ==
    \/ TrainReceive
    \/ TrainAuthReturn
    \/ TrainJsonReturn
    \/ TrainCheckCreditsReturn
    \/ TrainInsertReturn
    \/ TrainZipReturn
    \/ TrainUploadReturn
    \/ TrainCreateModelReturn
    \/ TrainCreateModelErrorReturn
    \/ TrainTrainingReturn
    \/ TrainTrainingErrorReturn
    \/ TrainBodyReturn
    \/ TrainUpdateReturn
    \/ TrainUseCreditReturn
    \/ TrainDeleteReturn
    \/ TrainRemoveReturn

SpecTrain == Init /\ [][NextTrain]_vars

\* ------------------------------------------------------------------ C39
\* the request has started a training job at the external service
TrainingStarted == trainings # {}

\* the rollback of the catch is running or has run
RolledBack ==
    \/ train.pc \in {"rollbackDeleteWait", "rollbackRemoveWait"}
    \/ train.pc = "done" /\ train.resp = [status |-> 500, error |-> "training start failed"]

\* C39: the rollback of the train route runs only when the training job was
\* not started; once the job is started the model record is kept; a credit
\* is deducted only after the job was started.
C39_RollbackOnlyBeforeStart ==
    /\ RolledBack => ~TrainingStarted
    /\ TrainingStarted => \E r \in lora_rows : r.id = train.loraModel
    /\ \A u \in Users : lora_credits[u] < InitialCredits[u] => TrainingStarted
====
